---- MODULE Spec2Model ----
(***************************************************************************)
(* CarLog backend: the record store (SQLite tables), the maintenance       *)
(* scheduler (MaintenanceService), the vehicle and mileage services and    *)
(* the fuel-economy calculation, as state machines over the tables.        *)
(*                                                                         *)
(* Every db_helper.execute_* call opens its own connection() and commits   *)
(* when it returns, so a service method is a sequence of separately        *)
(* committed store steps.  One action models one whole service call.       *)
(***************************************************************************)
EXTENDS Integers, Sequences, FiniteSets, TLC

VARIABLES schema, vehicles, maintenance_intervals, repairs, fuel_logs,
          mileage_history, trips, next_id, last, calls, requests

vars == <<schema, vehicles, maintenance_intervals, repairs, fuel_logs,
          mileage_history, trips, next_id, last, calls, requests>>

\* the six data tables
store == <<vehicles, maintenance_intervals, repairs, fuel_logs,
           mileage_history, trips>>

(***************************************************************************)
(* Values.  Integer columns hold naturals; SQL NULL / Python None, a key   *)
(* missing from a request dict, and a value the validators reject are      *)
(* encoded as negative integers so that every column stays comparable.     *)
(***************************************************************************)
NULL == 0 - 1
ABSENT == 0 - 2
BAD == 0 - 3

\* bounds of the model
MaxId == 3
MaxCalls == 3
MaxDepId == 1
NumDefaults == 1

VINs == {"V1", "V2"}

\* DEFAULT_INTERVALS, in dict order; the model keeps the first NumDefaults
DefaultOrder ==
  << [service_type |-> "Oil Change",           miles |-> 5000,  months |-> 6],
     [service_type |-> "Transmission Fluid",   miles |-> 60000, months |-> 48],
     [service_type |-> "Brake Inspection",     miles |-> 25000, months |-> 24],
     [service_type |-> "Air Filter",           miles |-> 15000, months |-> 12],
     [service_type |-> "Tire Rotation",        miles |-> 7500,  months |-> 6],
     [service_type |-> "Coolant Flush",        miles |-> 30000, months |-> 36],
     [service_type |-> "Spark Plugs",          miles |-> 60000, months |-> 60],
     [service_type |-> "Battery Check",        miles |-> 25000, months |-> 24],
     [service_type |-> "Brake Fluid",          miles |-> 30000, months |-> 24],
     [service_type |-> "Power Steering Fluid", miles |-> 50000, months |-> 48] >>

DEFAULT_INTERVALS == SubSeq(DefaultOrder, 1, NumDefaults)

DefaultTypes == {DEFAULT_INTERVALS[i].service_type : i \in 1..Len(DEFAULT_INTERVALS)}

DefaultOf(st) ==
  CHOOSE d \in {DEFAULT_INTERVALS[i] : i \in 1..Len(DEFAULT_INTERVALS)} :
    d.service_type = st

\* service types of the requests: the default ones and a custom one
ServiceTypes == DefaultTypes \cup {"Custom"}

\* datetime.now() as a day number, and the day number of an explicit date
Today == 200
DateInputs == {ABSENT, BAD, 100}

(***************************************************************************)
(* Python helpers                                                          *)
(***************************************************************************)
\* truthiness of an int-or-None value: None, a missing key and 0 are falsy
Truthy(x) == x # NULL /\ x # ABSENT /\ x # 0

\* the idiom "x or 0"
OrZero(x) == IF Truthy(x) THEN x ELSE 0

\* int(validate_positive_number(v)): the model's inputs are whole numbers,
\* which the float/int round trip returns unchanged; BAD is rejected
ValidNumber(v) == v >= 0

\* a column that the INSERT does not name takes its default
ColumnOr(v, default) == IF v = ABSENT THEN default ELSE v

(***************************************************************************)
(* Store helpers                                                           *)
(***************************************************************************)
VehicleRows(vs, vin) == {v \in vs : v.vin = vin}

\* fetch_one of "SELECT current_mileage FROM vehicles WHERE vin = ?"
CurrentMileage(vs, vin) == (CHOOSE v \in vs : v.vin = vin).current_mileage

\* FOREIGN KEY (vin) REFERENCES vehicles(vin), enforced by schema.SCHEMA
\* only; the tables of _create_tables_inline declare no foreign key
ForeignKeyOk(vs, vin) == schema = "inline" \/ VehicleRows(vs, vin) # {}

\* UNIQUE(vin, service_type) of schema.SCHEMA; absent from the inline tables
UniqueOk(tbl, id, vin, st) ==
  schema = "inline" \/
  ~ \E r \in tbl : r.id # id /\ r.vin = vin /\ r.service_type = st

\* the lookup with its two parameters bound the wrong way round
IntervalRows_Swapped(tbl, vin, st) ==
  {r \in tbl : r.vin = st /\ r.service_type = vin}

\* the lookup by service type alone
IntervalRows_AnyVehicle(tbl, vin, st) == {r \in tbl : r.service_type = st}

\* "SELECT .. FROM maintenance_intervals WHERE vin = ? AND service_type = ?"
IntervalRows(tbl, vin, st) == {r \in tbl : r.vin = vin /\ r.service_type = st}

NewInterval(id, vin, st, im, mo, nd) ==
  [id |-> id, vin |-> vin, service_type |-> st,
   interval_miles |-> im, interval_months |-> mo,
   last_performed_mileage |-> NULL, last_performed_date |-> NULL,
   next_due_mileage |-> nd, next_due_date |-> NULL]

\* the response of the last call
Resp(op, ok, err, vin, id, arg, result) ==
  [op |-> op, ok |-> ok, err |-> err, vin |-> vin, id |-> id, arg |-> arg,
   result |-> result]

\* a call that raised: the operation and the error code of the exception
\* (no vehicle is named in it: the vin is the empty text)
Fail(op, err) == Resp(op, FALSE, err, "", NULL, NULL, <<>>)

NoChange == UNCHANGED <<schema, vehicles, maintenance_intervals, repairs,
                        fuel_logs, mileage_history, trips, next_id>>

(***************************************************************************)
(* MaintenanceService.initialize_for_vehicle, as a function of the tables: *)
(* the default table is walked in order and a row is inserted for each     *)
(* service type that has none for the vehicle.                             *)
(***************************************************************************)
\* the existence check with its two parameters bound the wrong way round
ExistingInterval_Swapped(tbl, vin, st) ==
  {r \in tbl : r.vin = st /\ r.service_type = vin}

\* "Check if already exists": SELECT id .. WHERE vin = ? AND service_type = ?
ExistingInterval(tbl, vin, st) ==
  {r \in tbl : r.vin = vin /\ r.service_type = st}

RECURSIVE InitLoop(_, _, _, _, _)
InitLoop(i, tbl, nid, vin, current_mileage) ==
  IF i > Len(DEFAULT_INTERVALS) THEN [tbl |-> tbl, nid |-> nid]
  ELSE LET d == DEFAULT_INTERVALS[i]
       IN IF ExistingInterval(tbl, vin, d.service_type) # {}
          THEN InitLoop(i + 1, tbl, nid, vin, current_mileage)
          ELSE InitLoop(i + 1,
                        tbl \cup {NewInterval(nid, vin, d.service_type, d.miles,
                                              d.months, current_mileage + d.miles)},
                        nid + 1, vin, current_mileage)

\* the loop started from a zero reading whatever the vehicle's is
InitializeRows_FromZero(tbl, nid, vs, vin) == InitLoop(1, tbl, nid, vin, 0)

InitializeRows(tbl, nid, vs, vin) ==
  InitLoop(1, tbl, nid, vin, OrZero(CurrentMileage(vs, vin)))

(***************************************************************************)
(* VehicleService                                                          *)
(***************************************************************************)
\* VehicleService.create(data): valid stands for the year check and the
\* required fields, cm for data['current_mileage'] (ABSENT, NULL or a value)
VehicleCreate(vin, valid, cm) ==
  LET vs1 == vehicles \cup {[vin |-> vin, current_mileage |-> ColumnOr(cm, 0)]}
      \* initialize_for_vehicle runs after the vehicle row is committed
      seeded == InitializeRows(maintenance_intervals,
                               next_id.maintenance_intervals, vs1, vin)
  IN IF ~valid \/ VehicleRows(vehicles, vin) # {} \/ cm = BAD
     THEN /\ last' = Fail("vehicle_create", "VALIDATION_ERROR")
          /\ NoChange
     ELSE /\ seeded.nid - 1 <= MaxId
          /\ vehicles' = vs1
          /\ maintenance_intervals' = seeded.tbl
          /\ next_id' = [next_id EXCEPT !.maintenance_intervals = seeded.nid]
          /\ last' = Resp("vehicle_create", TRUE, "", vin, NULL, NULL, <<>>)
          /\ UNCHANGED <<schema, repairs, fuel_logs, mileage_history, trips>>

\* VehicleService.update(vin, data) -> BaseService.update: cm is
\* data['current_mileage']; ABSENT is a payload that names other columns
VehicleUpdate(vin, cm) ==
  IF cm = BAD
  THEN /\ last' = Fail("vehicle_update", "VALIDATION_ERROR")
       /\ NoChange
  ELSE IF VehicleRows(vehicles, vin) = {}
  THEN /\ last' = Fail("vehicle_update", "NOT_FOUND")
       /\ NoChange
  ELSE /\ vehicles' = {IF v.vin = vin /\ cm # ABSENT
                       THEN [v EXCEPT !.current_mileage = cm] ELSE v : v \in vehicles}
       /\ last' = Resp("vehicle_update", TRUE, "", vin, NULL, cm, <<>>)
       /\ UNCHANGED <<schema, maintenance_intervals, repairs, fuel_logs,
                      mileage_history, trips, next_id>>

\* VehicleService.update_mileage(vin, mileage)
VehicleUpdateMileage(vin, mileage) ==
  IF ~ValidNumber(mileage)
  THEN /\ last' = Fail("update_mileage", "VALIDATION_ERROR")
       /\ NoChange
  ELSE IF VehicleRows(vehicles, vin) = {}
  THEN /\ last' = Fail("update_mileage", "NOT_FOUND")
       /\ NoChange
  ELSE IF mileage < OrZero(CurrentMileage(vehicles, vin))
  THEN /\ last' = Fail("update_mileage", "VALIDATION_ERROR")
       /\ NoChange
  ELSE /\ vehicles' = {IF v.vin = vin
                       THEN [v EXCEPT !.current_mileage = mileage] ELSE v : v \in vehicles}
       /\ last' = Resp("update_mileage", TRUE, "", vin, NULL, mileage, <<>>)
       /\ UNCHANGED <<schema, maintenance_intervals, repairs, fuel_logs,
                      mileage_history, trips, next_id>>

\* execute_delete(table, 'vin = ?', (vin,))
DeleteByVin(tbl, vin) == {r \in tbl : r.vin # vin}

\* the explicit deletes without the one of the trips table
DeleteRelated_NoTrips(vin) ==
  [trips |-> trips,
   fuel_logs |-> DeleteByVin(fuel_logs, vin),
   repairs |-> DeleteByVin(repairs, vin),
   maintenance_intervals |-> DeleteByVin(maintenance_intervals, vin),
   mileage_history |-> DeleteByVin(mileage_history, vin)]

\* "Explicitly delete related records": the five execute_delete calls
DeleteRelated(vin) ==
  [trips |-> DeleteByVin(trips, vin),
   fuel_logs |-> DeleteByVin(fuel_logs, vin),
   repairs |-> DeleteByVin(repairs, vin),
   maintenance_intervals |-> DeleteByVin(maintenance_intervals, vin),
   mileage_history |-> DeleteByVin(mileage_history, vin)]

\* VehicleService.delete(vin): five committed deletes, then BaseService.delete
VehicleDelete(vin) ==
  /\ trips' = DeleteRelated(vin).trips
  /\ fuel_logs' = DeleteRelated(vin).fuel_logs
  /\ repairs' = DeleteRelated(vin).repairs
  /\ maintenance_intervals' = DeleteRelated(vin).maintenance_intervals
  /\ mileage_history' = DeleteRelated(vin).mileage_history
  /\ IF VehicleRows(vehicles, vin) = {}
     THEN /\ last' = Fail("vehicle_delete", "NOT_FOUND")
          /\ UNCHANGED vehicles
     ELSE /\ vehicles' = DeleteByVin(vehicles, vin)
          \* arg: the sum of the row counts of the five deletes
          /\ last' = Resp("vehicle_delete", TRUE, "", vin, NULL,
                          Cardinality({r \in trips : r.vin = vin})
                          + Cardinality({r \in fuel_logs : r.vin = vin})
                          + Cardinality({r \in repairs : r.vin = vin})
                          + Cardinality({r \in maintenance_intervals : r.vin = vin})
                          + Cardinality({r \in mileage_history : r.vin = vin}), <<>>)
  /\ UNCHANGED <<schema, next_id>>

(***************************************************************************)
(* MileageService, RepairService, FuelLogService, TripService: create      *)
(***************************************************************************)
\* the vehicle's reading overwritten by every new reading
RaisedMileage_Always(vs, vin, mileage) ==
  {IF v.vin = vin THEN [v EXCEPT !.current_mileage = mileage] ELSE v : v \in vs}

\* "if vehicle and mileage > (vehicle['current_mileage'] or 0)": the vehicles
\* table after the reading has been applied
RaisedMileage(vs, vin, mileage) ==
  IF VehicleRows(vs, vin) # {} /\ mileage > OrZero(CurrentMileage(vs, vin))
  THEN {IF v.vin = vin THEN [v EXCEPT !.current_mileage = mileage] ELSE v : v \in vs}
  ELSE vs

\* MileageService.create(data): bindable is FALSE when a column value (the
\* free-form notes taken from the request body) is of a type sqlite3 cannot
\* bind, which makes the INSERT raise
MileageCreate(vin, mileage, bindable) ==
  IF ~ValidNumber(mileage)
  THEN /\ last' = Fail("mileage_create", "VALIDATION_ERROR")
       /\ NoChange
  ELSE
    LET vs1 == RaisedMileage(vehicles, vin, mileage)
        inserted == bindable /\ ForeignKeyOk(vs1, vin)
    IN /\ inserted => next_id.mileage_history <= MaxDepId
       /\ vehicles' = vs1
       /\ mileage_history' =
            IF inserted
            THEN mileage_history \cup
                 {[id |-> next_id.mileage_history, vin |-> vin, mileage |-> mileage]}
            ELSE mileage_history
       /\ next_id' = IF inserted
                     THEN [next_id EXCEPT !.mileage_history = @ + 1] ELSE next_id
       /\ last' = IF inserted
                  THEN Resp("mileage_create", TRUE, "", vin, next_id.mileage_history, mileage, <<>>)
                  ELSE Fail("mileage_create", "STORE_ERROR")
       /\ UNCHANGED <<schema, maintenance_intervals, repairs, fuel_logs, trips>>

\* RepairService.create(data)
RepairCreate(vin, cost) ==
  IF ~ValidNumber(cost)
  THEN /\ last' = Fail("repair_create", "VALIDATION_ERROR")
       /\ NoChange
  ELSE IF ~ForeignKeyOk(vehicles, vin)
  THEN /\ last' = Fail("repair_create", "STORE_ERROR")
       /\ NoChange
  ELSE /\ next_id.repairs <= MaxDepId
       /\ repairs' = repairs \cup {[id |-> next_id.repairs, vin |-> vin, cost |-> cost]}
       /\ next_id' = [next_id EXCEPT !.repairs = @ + 1]
       /\ last' = Resp("repair_create", TRUE, "", vin, next_id.repairs, cost, <<>>)
       /\ UNCHANGED <<schema, vehicles, maintenance_intervals, fuel_logs,
                      mileage_history, trips>>

\* FuelLogService.create(data)
FuelLogCreate(vin, gallons, odometer, full_tank) ==
  IF ~ValidNumber(gallons) \/ ~ValidNumber(odometer)
  THEN /\ last' = Fail("fuel_create", "VALIDATION_ERROR")
       /\ NoChange
  ELSE IF ~ForeignKeyOk(vehicles, vin)
  THEN /\ last' = Fail("fuel_create", "STORE_ERROR")
       /\ NoChange
  ELSE /\ next_id.fuel_logs <= MaxDepId
       /\ fuel_logs' = fuel_logs \cup
            {[id |-> next_id.fuel_logs, vin |-> vin, gallons |-> gallons,
              odometer |-> odometer, full_tank |-> ColumnOr(full_tank, 1)]}
       /\ next_id' = [next_id EXCEPT !.fuel_logs = @ + 1]
       /\ last' = Resp("fuel_create", TRUE, "", vin, next_id.fuel_logs, odometer, <<>>)
       /\ UNCHANGED <<schema, vehicles, maintenance_intervals, repairs,
                      mileage_history, trips>>

\* TripService.create(data)
TripCreate(vin, start_mileage, end_mileage) ==
  IF start_mileage = BAD \/ end_mileage = BAD
     \/ (Truthy(start_mileage) /\ Truthy(end_mileage) /\ end_mileage < start_mileage)
  THEN /\ last' = Fail("trip_create", "VALIDATION_ERROR")
       /\ NoChange
  ELSE IF ~ForeignKeyOk(vehicles, vin)
  THEN /\ last' = Fail("trip_create", "STORE_ERROR")
       /\ NoChange
  ELSE /\ next_id.trips <= MaxDepId
       /\ trips' = trips \cup
            {[id |-> next_id.trips, vin |-> vin,
              start_mileage |-> ColumnOr(start_mileage, NULL),
              end_mileage |-> ColumnOr(end_mileage, NULL),
              distance |-> IF Truthy(start_mileage) /\ Truthy(end_mileage)
                           THEN end_mileage - start_mileage ELSE NULL]}
       /\ next_id' = [next_id EXCEPT !.trips = @ + 1]
       /\ last' = Resp("trip_create", TRUE, "", vin, next_id.trips, NULL, <<>>)
       /\ UNCHANGED <<schema, vehicles, maintenance_intervals, repairs,
                      fuel_logs, mileage_history>>

(***************************************************************************)
(* MaintenanceService                                                      *)
(***************************************************************************)
\* the row MaintenanceService.create inserts: "Use defaults if not provided"
\* and "Calculate next_due_mileage if interval_miles is provided"; seen is
\* the current_mileage the call read from the vehicle row
CreatedInterval(id, vin, st, im, mo, nd, seen) ==
  LET inherit == im = ABSENT /\ st \in DefaultTypes
      im1 == IF inherit THEN DefaultOf(st).miles ELSE im
      mo1 == IF inherit THEN DefaultOf(st).months ELSE mo
      current_mileage == OrZero(seen)
      nd1 == IF Truthy(im1) /\ ~Truthy(nd) THEN current_mileage + im1 ELSE nd
  IN NewInterval(id, vin, st, ColumnOr(im1, NULL), ColumnOr(mo1, NULL),
                 ColumnOr(nd1, NULL))

\* MaintenanceService.create(data): im, mo, nd are data['interval_miles'],
\* data['interval_months'], data['next_due_mileage'] (ABSENT, NULL or a value)
MaintCreate(vin, st, im, mo, nd) ==
  IF VehicleRows(vehicles, vin) = {}
  THEN /\ last' = Fail("maintenance_create", "NOT_FOUND")
       /\ NoChange
  ELSE IF IntervalRows(maintenance_intervals, vin, st) # {}
  THEN /\ last' = Fail("maintenance_create", "VALIDATION_ERROR")
       /\ NoChange
  ELSE
    LET id == next_id.maintenance_intervals
    IN /\ id <= MaxId
       /\ maintenance_intervals' = maintenance_intervals \cup
            {CreatedInterval(id, vin, st, im, mo, nd, CurrentMileage(vehicles, vin))}
       /\ next_id' = [next_id EXCEPT !.maintenance_intervals = id + 1]
       /\ last' = Resp("maintenance_create", TRUE, "", vin, id, NULL, <<>>)
       /\ UNCHANGED <<schema, vehicles, repairs, fuel_logs, mileage_history, trips>>

\* MaintenanceService.create of a request that names no next_due_mileage
MaintenanceCreateCall(vin, st, im, mo) == MaintCreate(vin, st, im, mo, ABSENT)

\* the row after "UPDATE maintenance_intervals SET field = value"
SetField(r, field, value) ==
  CASE field = "vin" -> [r EXCEPT !.vin = value]
    [] field = "service_type" -> [r EXCEPT !.service_type = value]
    [] field = "interval_miles" -> [r EXCEPT !.interval_miles = value]
    [] field = "next_due_mileage" -> [r EXCEPT !.next_due_mileage = value]
    [] OTHER -> r

\* MaintenanceService.update(id, data) = BaseService.update: the payload
\* names one allowed column (field, value), or none ("none")
MaintUpdate(id, field, value) ==
  IF ~ \E r \in maintenance_intervals : r.id = id
  THEN /\ last' = Fail("maintenance_update", "NOT_FOUND")
       /\ NoChange
  ELSE
    LET existing == CHOOSE r \in maintenance_intervals : r.id = id
        row == SetField(existing, field, value)
    IN IF ~ (UniqueOk(maintenance_intervals, id, row.vin, row.service_type)
             /\ ForeignKeyOk(vehicles, row.vin))
       THEN /\ last' = Fail("maintenance_update", "STORE_ERROR")
            /\ NoChange
       ELSE /\ maintenance_intervals' = (maintenance_intervals \ {existing}) \cup {row}
            /\ last' = Resp("maintenance_update", TRUE, "", row.vin, id, NULL, <<>>)
            /\ UNCHANGED <<schema, vehicles, repairs, fuel_logs, mileage_history,
                           trips, next_id>>

\* MaintenanceService.delete(id) = BaseService.delete
MaintDelete(id) ==
  IF ~ \E r \in maintenance_intervals : r.id = id
  THEN /\ last' = Fail("maintenance_delete", "NOT_FOUND")
       /\ NoChange
  ELSE /\ maintenance_intervals' = {r \in maintenance_intervals : r.id # id}
       /\ last' = Resp("maintenance_delete", TRUE, "", "", id, NULL, <<>>)
       /\ UNCHANGED <<schema, vehicles, repairs, fuel_logs, mileage_history,
                      trips, next_id>>

\* the recorded mileage without the read of the vehicle: an omitted mileage
\* counts as 0
ServiceMileage_NoVehicleRead(vs, vin, mileage) ==
  IF mileage = ABSENT THEN 0 ELSE mileage

\* the mileage record_service works with: the argument, or the vehicle's
\* current_mileage (0 when there is no vehicle row) when it is omitted
ServiceMileage(vs, vin, mileage) ==
  IF mileage = ABSENT
  THEN IF VehicleRows(vs, vin) # {} THEN CurrentMileage(vs, vin) ELSE 0
  ELSE mileage

\* the next due mileage counted from the previous due mileage
NextDueMileage_FromPreviousDue(interval, mileage) ==
  IF Truthy(interval.interval_miles)
  THEN OrZero(interval.next_due_mileage) + interval.interval_miles ELSE NULL

\* the next due mileage left as it was when the interval has no interval_miles
NextDueMileage_KeepsPrevious(interval, mileage) ==
  IF Truthy(interval.interval_miles)
  THEN mileage + interval.interval_miles ELSE interval.next_due_mileage

\* "Calculate next due" of record_service
NextDueMileage(interval, mileage) ==
  IF Truthy(interval.interval_miles) THEN mileage + interval.interval_miles ELSE NULL

NextDueDate(interval, date) ==
  IF Truthy(interval.interval_months) THEN date + interval.interval_months * 30 ELSE NULL

\* MaintenanceService.record_service(vin, service_type, date, mileage)
RecordService(vin, st, date_in, mileage_in) ==
  IF date_in = BAD
  THEN /\ last' = Fail("record_service", "VALIDATION_ERROR")
       /\ NoChange
  ELSE IF IntervalRows(maintenance_intervals, vin, st) = {}
  THEN /\ last' = Fail("record_service", "NOT_FOUND")
       /\ NoChange
  ELSE IF mileage_in = BAD
  THEN /\ last' = Fail("record_service", "VALIDATION_ERROR")
       /\ NoChange
  ELSE
    \* fetch_one of a query without ORDER BY: any matching row
    \E interval \in IntervalRows(maintenance_intervals, vin, st) :
      LET date == IF Truthy(date_in) THEN date_in ELSE Today
          mileage == ServiceMileage(vehicles, vin, mileage_in)
      IN IF mileage = NULL /\ Truthy(interval.interval_miles)
         THEN \* None + int raises TypeError
              /\ last' = Fail("record_service", "TYPE_ERROR")
              /\ NoChange
         ELSE /\ maintenance_intervals' =
                   (maintenance_intervals \ {interval}) \cup
                   {[interval EXCEPT !.last_performed_date = date,
                                     !.last_performed_mileage = mileage,
                                     !.next_due_date = NextDueDate(interval, date),
                                     !.next_due_mileage = NextDueMileage(interval, mileage)]}
              /\ last' = Resp("record_service", TRUE, "", vin, interval.id, mileage_in, <<>>)
              /\ UNCHANGED <<schema, vehicles, repairs, fuel_logs, mileage_history,
                             trips, next_id>>

\* MaintenanceService.initialize_for_vehicle(vin)
InitializeForVehicle(vin) ==
  IF VehicleRows(vehicles, vin) = {}
  THEN /\ last' = Fail("initialize_for_vehicle", "NOT_FOUND")
       /\ NoChange
  ELSE
    LET seeded == InitializeRows(maintenance_intervals,
                                 next_id.maintenance_intervals, vehicles, vin)
    IN /\ seeded.nid - 1 <= MaxId
       /\ maintenance_intervals' = seeded.tbl
       /\ next_id' = [next_id EXCEPT !.maintenance_intervals = seeded.nid]
       \* id: the number of rows this call inserted; arg: 0, or 1 + the number
       \* of rows the preceding call inserted when that was the same
       \* successful call
       /\ last' = Resp("initialize_for_vehicle", TRUE, "", vin,
                       seeded.nid - next_id.maintenance_intervals,
                       IF last.op = "initialize_for_vehicle" /\ last.ok /\ last.vin = vin
                       THEN 1 + last.id ELSE 0, <<>>)
       /\ UNCHANGED <<schema, vehicles, repairs, fuel_logs, mileage_history, trips>>

(***************************************************************************)
(* MaintenanceService: the read operations                                 *)
(***************************************************************************)
\* the orders in which a SELECT may return the rows of S
Listings(S) ==
  {s \in [1..Cardinality(S) -> S] : \A i, j \in 1..Cardinality(S) : i # j => s[i] # s[j]}

\* LIMIT n
Limit(s, n) == SubSeq(s, 1, IF Len(s) < n THEN Len(s) ELSE n)

\* ORDER BY next_due_mileage ASC: rows with equal keys come in any order
AscNextDue(s) ==
  \A i \in 1..(Len(s) - 1) : s[i].next_due_mileage <= s[i + 1].next_due_mileage

\* the overdue query with <= in place of <
OverdueRows_AtOrBelow(tbl, vin, current_mileage) ==
  {r \in tbl : r.vin = vin /\ r.next_due_mileage # NULL
                           /\ r.next_due_mileage <= current_mileage}

\* "WHERE vin = ? AND next_due_mileage < ?": a comparison with NULL is not true
OverdueRows(tbl, vin, current_mileage) ==
  {r \in tbl : r.vin = vin /\ r.next_due_mileage # NULL
                           /\ r.next_due_mileage < current_mileage}

\* the rows of get_overdue without its early return, the reading taken as
\* "current_mileage or 0"
OverdueSet_ZeroReading(vs, tbl, vin) ==
  IF VehicleRows(vs, vin) = {} THEN {}
  ELSE OverdueRows(tbl, vin, OrZero(CurrentMileage(vs, vin)))

\* the rows get_overdue(vin) returns: none "if not vehicle or not
\* vehicle['current_mileage']", the rows of the overdue query otherwise
OverdueSet(vs, tbl, vin) ==
  IF VehicleRows(vs, vin) = {} \/ ~Truthy(CurrentMileage(vs, vin))
  THEN {}
  ELSE OverdueRows(tbl, vin, CurrentMileage(vs, vin))

\* MaintenanceService.get_overdue(vin)
GetOverdue(vin) ==
  /\ \E result \in
        {s \in Listings(OverdueSet(vehicles, maintenance_intervals, vin)) : AscNextDue(s)} :
       last' = Resp("get_overdue", TRUE, "", vin, NULL, NULL, result)
  /\ NoChange

\* the upcoming query without its IS NOT NULL condition
UpcomingRows_WithNull(tbl, vin) == {r \in tbl : r.vin = vin}

\* "WHERE vin = ? AND next_due_mileage IS NOT NULL"
UpcomingRows(tbl, vin) == {r \in tbl : r.vin = vin /\ r.next_due_mileage # NULL}

\* MaintenanceService.get_upcoming(vin, limit):
\* ".. ORDER BY next_due_mileage ASC LIMIT ?"
GetUpcoming(vin, limit) ==
  /\ \E result \in
        {Limit(s, limit) : s \in {t \in Listings(UpcomingRows(maintenance_intervals, vin)) :
                                   AscNextDue(t)}} :
       last' = Resp("get_upcoming", TRUE, "", vin, NULL, limit, result)
  /\ NoChange

\* ORDER BY next_due_mileage ASC NULLS LAST
AscNullsLast(s) ==
  \A i \in 1..(Len(s) - 1) :
    \/ s[i + 1].next_due_mileage = NULL
    \/ /\ s[i].next_due_mileage # NULL
       /\ s[i].next_due_mileage <= s[i + 1].next_due_mileage

\* the status block with the due_soon window closed at 500
ScheduleEntry_Within500(interval, current_mileage) ==
  LET next_due == interval.next_due_mileage
      miles_until == next_due - current_mileage
  IN IF next_due # NULL /\ Truthy(current_mileage)
     THEN [id |-> interval.id, next_due_mileage |-> next_due,
           miles_until_due |-> <<miles_until>>,
           status |-> IF miles_until < 0 THEN "overdue"
                      ELSE IF miles_until <= 500 THEN "due_soon" ELSE "ok"]
     ELSE [id |-> interval.id, next_due_mileage |-> next_due,
           miles_until_due |-> <<>>, status |-> "unknown"]

\* the status block of get_maintenance_schedule for one interval; an
\* optional value is a sequence of length 0 or 1
ScheduleEntry(interval, current_mileage) ==
  LET next_due == interval.next_due_mileage
      miles_until == next_due - current_mileage
  IN IF next_due # NULL /\ Truthy(current_mileage)
     THEN [id |-> interval.id, next_due_mileage |-> next_due,
           miles_until_due |-> <<miles_until>>,
           status |-> IF miles_until < 0 THEN "overdue"
                      ELSE IF miles_until < 500 THEN "due_soon" ELSE "ok"]
     ELSE [id |-> interval.id, next_due_mileage |-> next_due,
           miles_until_due |-> <<>>, status |-> "unknown"]

\* MaintenanceService.get_maintenance_schedule(vin)
GetMaintenanceSchedule(vin) ==
  LET current_mileage == IF VehicleRows(vehicles, vin) # {}
                         THEN CurrentMileage(vehicles, vin) ELSE 0
  IN /\ \E s \in {t \in Listings({r \in maintenance_intervals : r.vin = vin}) :
                    AscNullsLast(t)} :
          last' = Resp("get_maintenance_schedule", TRUE, "", vin, NULL, current_mileage,
                       [i \in 1..Len(s) |-> ScheduleEntry(s[i], current_mileage)])
     /\ NoChange

(***************************************************************************)
(* The store, starting empty under either table definition: schema.SCHEMA  *)
(* (init_db) or _create_tables_inline (ensure_initialized)                 *)
(***************************************************************************)
NoCall == Resp("none", TRUE, "", "", NULL, NULL, <<>>)

Init ==
  /\ schema \in {"inline", "full"}
  /\ vehicles = {}
  /\ maintenance_intervals = {}
  /\ repairs = {}
  /\ fuel_logs = {}
  /\ mileage_history = {}
  /\ trips = {}
  /\ next_id = [maintenance_intervals |-> 1, repairs |-> 1, fuel_logs |-> 1,
                mileage_history |-> 1, trips |-> 1]
  /\ last = NoCall
  /\ calls = 0
  /\ requests = <<>>

\* a write request: the model follows the store for MaxCalls of them
Write == calls < MaxCalls /\ calls' = calls + 1 /\ UNCHANGED requests

\* a read request
Read == UNCHANGED <<calls, requests>>

\* a request that removes one row: the rows to remove are bounded by the
\* budgeted requests that inserted them
Unbudgeted == UNCHANGED <<calls, requests>>

\* inputs of the scheduler specification
SchedIntervalMiles == {ABSENT, 499}
SchedIntervalMonths == {ABSENT, 3}
SchedFields == {<<"none", NULL>>, <<"interval_miles", 0>>, <<"next_due_mileage", NULL>>}
                 \cup {<<"vin", v>> : v \in VINs}
                 \cup {<<"service_type", st>> : st \in ServiceTypes}

\* the VINs for which the scheduler specification registers a vehicle; the
\* other VINs are named by requests but never get a vehicle row
SchedOwned == {"V1"}

\* the limits get_upcoming is called with
UpcomingLimits == {0, 1, 2}

NextSched ==
  \/ \E vin \in SchedOwned, valid \in BOOLEAN, cm \in {ABSENT, NULL, 4500} :
       Write /\ VehicleCreate(vin, valid, cm)
  \/ \E vin \in VINs, cm \in {ABSENT, BAD, NULL, 0, 4500} : Write /\ VehicleUpdate(vin, cm)
  \/ \E vin \in VINs, m \in {BAD, 5000} : Write /\ VehicleUpdateMileage(vin, m)
  \/ \E vin \in VINs : Write /\ VehicleDelete(vin)
  \/ \E vin \in VINs, st \in ServiceTypes, im \in SchedIntervalMiles,
          mo \in SchedIntervalMonths :
       Write /\ MaintCreate(vin, st, im, mo, ABSENT)
  \/ \E id \in 1..MaxId, f \in SchedFields : Write /\ MaintUpdate(id, f[1], f[2])
  \/ \E id \in 1..MaxId : Unbudgeted /\ MaintDelete(id)
  \/ \E vin \in VINs, st \in ServiceTypes, d \in DateInputs, m \in {ABSENT, BAD, 5000} :
       Write /\ RecordService(vin, st, d, m)
  \/ \E vin \in VINs : Write /\ InitializeForVehicle(vin)
  \/ \E vin \in VINs : Read /\ GetOverdue(vin)
  \/ \E vin \in VINs : Read /\ GetMaintenanceSchedule(vin)
  \/ \E vin \in VINs, limit \in UpcomingLimits : Read /\ GetUpcoming(vin, limit)

SpecSched == Init /\ [][NextSched]_vars

\* inputs of the store specification
StoreMileages == {0, 100, 200}

Next ==
  \/ \E vin \in VINs, valid \in BOOLEAN, cm \in {ABSENT, NULL, 100} :
       Write /\ VehicleCreate(vin, valid, cm)
  \/ \E vin \in VINs, cm \in StoreMileages \cup {ABSENT, NULL, BAD} :
       Write /\ VehicleUpdate(vin, cm)
  \/ \E vin \in VINs, m \in StoreMileages \cup {BAD} : Write /\ VehicleUpdateMileage(vin, m)
  \/ \E vin \in VINs : Write /\ VehicleDelete(vin)
  \/ \E vin \in VINs, m \in StoreMileages \cup {BAD}, bindable \in BOOLEAN :
       Write /\ MileageCreate(vin, m, bindable)
  \/ \E vin \in VINs, cost \in {BAD, 45} : Write /\ RepairCreate(vin, cost)
  \/ \E vin \in VINs, gallons \in {BAD, 10}, full_tank \in {ABSENT, 0} :
       Write /\ FuelLogCreate(vin, gallons, 1000, full_tank)
  \/ \E vin \in VINs, start_mileage \in {ABSENT, 100}, end_mileage \in {BAD, 50, 150} :
       Write /\ TripCreate(vin, start_mileage, end_mileage)
  \/ \E vin \in VINs, st \in ServiceTypes : Write /\ MaintCreate(vin, st, ABSENT, ABSENT, ABSENT)
  \/ \E id \in 1..MaxId, vin \in VINs : Write /\ MaintUpdate(id, "vin", vin)
  \/ \E vin \in VINs : Write /\ InitializeForVehicle(vin)

Spec == Init /\ [][Next]_vars

(***************************************************************************)
(* Fuel economy: AnalyticsService.calculate_mpg and                        *)
(* FuelLogService.calculate_mpg.  A quotient miles / gallons is kept as    *)
(* the pair <<miles, gallons>>; round(x, 1) yields a number of tenths.     *)
(***************************************************************************)
\* round(n / d, 1) in tenths, halves to the even tenth
Round1(n, d) ==
  LET q == (10 * n) \div d
      r == (10 * n) % d
  IN IF 2 * r < d THEN q
     ELSE IF 2 * r > d THEN q + 1
     ELSE IF q % 2 = 0 THEN q ELSE q + 1

RatLess(a, b) == a[1] * b[2] < b[1] * a[2]

RECURSIVE RatSum(_)
RatSum(vals) ==
  IF vals = <<>> THEN <<0, 1>>
  ELSE LET rest == RatSum(Tail(vals))
       IN <<vals[1][1] * rest[2] + rest[1] * vals[1][2], vals[1][2] * rest[2]>>

RatMax(vals) == CHOOSE v \in {vals[i] : i \in 1..Len(vals)} :
                  \A i \in 1..Len(vals) : ~RatLess(v, vals[i])

RatMin(vals) == CHOOSE v \in {vals[i] : i \in 1..Len(vals)} :
                  \A i \in 1..Len(vals) : ~RatLess(vals[i], v)

\* ORDER BY odometer DESC: rows with equal odometers come in any order
DescOdometer(s) == \A i \in 1..(Len(s) - 1) : s[i].odometer >= s[i + 1].odometer

\* the possible results of
\* "SELECT .. FROM fuel_logs WHERE vin = ? AND full_tank = 1 ORDER BY odometer DESC LIMIT n"
FullTankLogs(tbl, vin, n) ==
  {Limit(s, n) : s \in {t \in Listings({r \in tbl : r.vin = vin /\ r.full_tank = 1}) :
                          DescOdometer(t)}}

\* the quotient taken over the volume of the earlier entry of the pair
MpgSample_EarlierVolume(logs, i) ==
  LET miles == logs[i].odometer - logs[i + 1].odometer
      gallons == logs[i + 1].gallons
  IN IF gallons > 0 /\ miles > 0 THEN <<<<miles, gallons>>>> ELSE <<>>

\* the quotient taken without the check of the volume
MpgSample_NoVolumeCheck(logs, i) ==
  LET miles == logs[i].odometer - logs[i + 1].odometer
      gallons == logs[i].gallons
  IN IF miles > 0 THEN <<<<miles, gallons>>>> ELSE <<>>

\* the quotient of the pair (logs[i], logs[i + 1]), as a list of no or one
\* pair <<miles, gallons>>; a pair with gallons = 0 is a division by zero
MpgSample(logs, i) ==
  LET miles == logs[i].odometer - logs[i + 1].odometer
      gallons == logs[i].gallons
  IN IF gallons > 0 /\ miles > 0 THEN <<<<miles, gallons>>>> ELSE <<>>

\* the loop "for i in range(len(logs) - 1)": the list mpg_values
RECURSIVE MpgValues(_, _)
MpgValues(logs, i) ==
  IF i > Len(logs) - 1 THEN <<>>
  ELSE MpgSample(logs, i) \o MpgValues(logs, i + 1)

\* the dict both calculate_mpg methods build from the fetched logs; count is
\* data_points (AnalyticsService) or logs_used (FuelLogService)
MpgResult(logs) ==
  LET mpg_values == IF Len(logs) < 2 THEN <<>> ELSE MpgValues(logs, 1)
      raised == \E i \in 1..Len(mpg_values) : mpg_values[i][2] = 0
      total == RatSum(mpg_values)
  IN IF raised
     THEN [error |-> "ZeroDivisionError", average_mpg |-> <<>>, last_mpg |-> <<>>,
           best_mpg |-> <<>>, worst_mpg |-> <<>>, count |-> 0, mpg_values |-> mpg_values]
     ELSE IF mpg_values = <<>>
     THEN [error |-> "", average_mpg |-> <<>>, last_mpg |-> <<>>,
           best_mpg |-> <<>>, worst_mpg |-> <<>>, count |-> 0, mpg_values |-> mpg_values]
     ELSE [error |-> "",
           average_mpg |-> <<Round1(total[1], total[2] * Len(mpg_values))>>,
           last_mpg |-> <<Round1(mpg_values[1][1], mpg_values[1][2])>>,
           best_mpg |-> <<Round1(RatMax(mpg_values)[1], RatMax(mpg_values)[2])>>,
           worst_mpg |-> <<Round1(RatMin(mpg_values)[1], RatMin(mpg_values)[2])>>,
           count |-> Len(mpg_values), mpg_values |-> mpg_values]

\* AnalyticsService.calculate_mpg(vin): LIMIT 11
AnalyticsCalculateMpg(vin) ==
  /\ \E logs \in FullTankLogs(fuel_logs, vin, 11) :
       last' = Resp("analytics_calculate_mpg", MpgResult(logs).error = "",
                    MpgResult(logs).error, vin, NULL, logs, <<MpgResult(logs)>>)
  /\ NoChange
  /\ UNCHANGED <<calls, requests>>

\* FuelLogService.calculate_mpg(vin, limit): LIMIT limit + 1
FuelLogCalculateMpg(vin, limit) ==
  /\ \E logs \in FullTankLogs(fuel_logs, vin, limit + 1) :
       last' = Resp("fuel_log_calculate_mpg", MpgResult(logs).error = "",
                    MpgResult(logs).error, vin, NULL, logs, <<MpgResult(logs)>>)
  /\ NoChange
  /\ UNCHANGED <<calls, requests>>

\* the fuel logs of one vehicle the calculation is applied to
MaxFuelLogs == 3
MpgOdometers == {1000, 1300, 1600}
MpgGallons == {0, 5, 10}

\* full-tank rows of every odometer and volume, partial-tank rows of 5 gallons
FuelLogInputs ==
  [odometer : MpgOdometers, gallons : MpgGallons, full_tank : {1}]
    \cup [odometer : MpgOdometers, gallons : {5}, full_tank : {0}]

FuelLogRows == UNION {[1..n -> FuelLogInputs] : n \in 0..MaxFuelLogs}

InitMpg ==
  /\ schema \in {"inline"}
  /\ vehicles = {[vin |-> "V1", current_mileage |-> 0]}
  /\ maintenance_intervals = {}
  /\ repairs = {}
  /\ \E rows \in FuelLogRows :
       fuel_logs = {[id |-> i, vin |-> "V1", gallons |-> rows[i].gallons,
                     odometer |-> rows[i].odometer, full_tank |-> rows[i].full_tank] :
                    i \in DOMAIN rows}
  /\ mileage_history = {}
  /\ trips = {}
  /\ next_id = [maintenance_intervals |-> 1, repairs |-> 1,
                fuel_logs |-> Cardinality(fuel_logs) + 1,
                mileage_history |-> 1, trips |-> 1]
  /\ last = NoCall
  /\ calls = 0
  /\ requests = <<>>

NextMpg ==
  \/ \E vin \in VINs : AnalyticsCalculateMpg(vin)
  \/ \E vin \in VINs : FuelLogCalculateMpg(vin, 10)

SpecMpg == InitMpg /\ [][NextMpg]_vars

(***************************************************************************)
(* Concurrent requests.  A request in flight is a record of requests: its  *)
(* service call, its arguments, the step it is at (pc) and what it has     *)
(* read.  Each step is one db_helper.execute_* call, which opens its own   *)
(* connection() and commits; the steps of different requests interleave.   *)
(***************************************************************************)
MaxRequests == 2

ConcMileages == {100, 200}

Request(op, pc, vin, st, m, seen, i, err) ==
  [op |-> op, pc |-> pc, vin |-> vin, st |-> st, m |-> m, seen |-> seen,
   i |-> i, err |-> err]

\* a request arrives: every one of the four calls first reads the vehicle row
Start(op, vin, st, m) ==
  /\ Len(requests) < MaxRequests
  /\ requests' = Append(requests, Request(op, "read", vin, st, m, ABSENT, 1, ""))
  /\ NoChange
  /\ UNCHANGED <<last, calls>>

Finish(k, err) == [requests EXCEPT ![k].pc = "done", ![k].err = err]

\* "SELECT current_mileage FROM vehicles WHERE vin = ?" (get_by_vin in
\* update_mileage) and the branch each call takes on the row it got
ReadVehicle(k) ==
  LET r == requests[k]
      found == VehicleRows(vehicles, r.vin) # {}
      seen == IF found THEN CurrentMileage(vehicles, r.vin) ELSE ABSENT
  IN /\ r.pc = "read"
     /\ requests' =
          CASE r.op = "mileage_create" ->
                 [requests EXCEPT ![k].seen = seen,
                                  ![k].pc = IF found /\ r.m > OrZero(seen)
                                            THEN "write" ELSE "insert"]
            [] r.op = "update_mileage" ->
                 IF ~found THEN Finish(k, "NOT_FOUND")
                 ELSE IF r.m < OrZero(seen) THEN Finish(k, "VALIDATION_ERROR")
                 ELSE [requests EXCEPT ![k].seen = seen, ![k].pc = "write"]
            [] OTHER ->
                 IF ~found THEN Finish(k, "NOT_FOUND")
                 ELSE IF r.op = "initialize_for_vehicle" /\ Len(DEFAULT_INTERVALS) = 0
                 THEN Finish(k, "")
                 ELSE [requests EXCEPT ![k].seen = seen, ![k].pc = "check"]
     /\ NoChange
     /\ UNCHANGED <<last, calls>>

\* execute_update('vehicles', {'current_mileage': mileage}, 'vin = ?'); no
\* request of this specification removes a vehicle, so the existence check
\* BaseService.update makes before it sees the row the first read saw
WriteMileage(k) ==
  LET r == requests[k]
  IN /\ r.pc = "write"
     /\ vehicles' = {IF v.vin = r.vin
                     THEN [v EXCEPT !.current_mileage = r.m] ELSE v : v \in vehicles}
     /\ requests' = IF r.op = "mileage_create"
                    THEN [requests EXCEPT ![k].pc = "insert"]
                    ELSE Finish(k, "")
     /\ UNCHANGED <<schema, maintenance_intervals, repairs, fuel_logs,
                    mileage_history, trips, next_id, last, calls>>

\* BaseService.create of MileageService.create: the INSERT into mileage_history
InsertHistory(k) ==
  LET r == requests[k]
      inserted == ForeignKeyOk(vehicles, r.vin)
  IN /\ r.pc = "insert" /\ r.op = "mileage_create"
     /\ mileage_history' =
          IF inserted
          THEN mileage_history \cup
               {[id |-> next_id.mileage_history, vin |-> r.vin, mileage |-> r.m]}
          ELSE mileage_history
     /\ next_id' = IF inserted
                   THEN [next_id EXCEPT !.mileage_history = @ + 1] ELSE next_id
     /\ requests' = Finish(k, IF inserted THEN "" ELSE "STORE_ERROR")
     /\ UNCHANGED <<schema, vehicles, maintenance_intervals, repairs, fuel_logs,
                    trips, last, calls>>

\* the request after the default at index i of initialize_for_vehicle is dealt with
NextDefault(k) ==
  IF requests[k].i < Len(DEFAULT_INTERVALS)
  THEN [requests EXCEPT ![k].i = @ + 1, ![k].pc = "check"]
  ELSE Finish(k, "")

\* "SELECT id FROM maintenance_intervals WHERE vin = ? AND service_type = ?":
\* the duplicate check of create, the existence check of initialize_for_vehicle
CheckExisting(k) ==
  LET r == requests[k]
  IN /\ r.pc = "check"
     /\ requests' =
          IF r.op = "maintenance_create"
          THEN IF IntervalRows(maintenance_intervals, r.vin, r.st) # {}
               THEN Finish(k, "VALIDATION_ERROR")
               ELSE [requests EXCEPT ![k].pc = "insert"]
          ELSE IF ExistingInterval(maintenance_intervals, r.vin,
                                   DEFAULT_INTERVALS[r.i].service_type) # {}
               THEN NextDefault(k)
               ELSE [requests EXCEPT ![k].pc = "insert"]
     /\ NoChange
     /\ UNCHANGED <<last, calls>>

\* execute_insert('maintenance_intervals', ..): the constraints of
\* schema.SCHEMA make it raise sqlite3.IntegrityError
InsertInterval(k) ==
  LET r == requests[k]
      id == next_id.maintenance_intervals
      d == DEFAULT_INTERVALS[r.i]
      row == IF r.op = "maintenance_create"
             THEN CreatedInterval(id, r.vin, r.st, ABSENT, ABSENT, ABSENT, r.seen)
             ELSE NewInterval(id, r.vin, d.service_type, d.miles, d.months,
                              OrZero(r.seen) + d.miles)
      inserted == /\ UniqueOk(maintenance_intervals, id, row.vin, row.service_type)
                  /\ ForeignKeyOk(vehicles, row.vin)
  IN /\ r.pc = "insert" /\ r.op \in {"maintenance_create", "initialize_for_vehicle"}
     /\ maintenance_intervals' =
          IF inserted THEN maintenance_intervals \cup {row} ELSE maintenance_intervals
     /\ next_id' = IF inserted
                   THEN [next_id EXCEPT !.maintenance_intervals = id + 1] ELSE next_id
     /\ requests' = IF ~inserted THEN Finish(k, "STORE_ERROR")
                    ELSE IF r.op = "maintenance_create" THEN Finish(k, "")
                    ELSE NextDefault(k)
     /\ UNCHANGED <<schema, vehicles, repairs, fuel_logs, mileage_history, trips,
                    last, calls>>

NextConc ==
  \/ \E cm \in {ABSENT, 100} : Write /\ VehicleCreate("V1", TRUE, cm)
  \/ \E id \in 1..MaxId : Unbudgeted /\ MaintDelete(id)
  \/ \E m \in ConcMileages : Start("mileage_create", "V1", "", m)
  \/ \E m \in ConcMileages : Start("update_mileage", "V1", "", m)
  \/ \E st \in ServiceTypes : Start("maintenance_create", "V1", st, ABSENT)
  \/ Start("initialize_for_vehicle", "V1", "", ABSENT)
  \/ \E k \in 1..Len(requests) : ReadVehicle(k)
  \/ \E k \in 1..Len(requests) : WriteMileage(k)
  \/ \E k \in 1..Len(requests) : InsertHistory(k)
  \/ \E k \in 1..Len(requests) : CheckExisting(k)
  \/ \E k \in 1..Len(requests) : InsertInterval(k)

SpecConc == Init /\ [][NextConc]_vars

(***************************************************************************)
(* Cost per mile: AnalyticsService.calculate_cost_per_mile.  Money is kept *)
(* in cents, so round(x, 2) of a sum of cents is the sum; a rate in        *)
(* dollars per mile is kept in thousandths of a dollar, round(x, 3).       *)
(***************************************************************************)
\* round(n / d), halves to the even neighbour, for n >= 0 and d > 0
RoundHalfEven(n, d) ==
  LET q == n \div d
      r == n % d
  IN IF 2 * r < d THEN q
     ELSE IF 2 * r > d THEN q + 1
     ELSE IF q % 2 = 0 THEN q ELSE q + 1

\* SUM(column) over the rows S; COALESCE(.., 0) makes it 0 for no rows
RECURSIVE SumColumn(_, _)
SumColumn(S, column) ==
  IF S = {} THEN 0
  ELSE LET r == CHOOSE x \in S : TRUE
       IN r[column] + SumColumn(S \ {r}, column)

\* MIN(column) and MAX(column): NULL over no rows
MinColumn(S, column) ==
  IF S = {} THEN NULL ELSE CHOOSE m \in {r[column] : r \in S} : \A r \in S : m <= r[column]

MaxColumn(S, column) ==
  IF S = {} THEN NULL ELSE CHOOSE m \in {r[column] : r \in S} : \A r \in S : m >= r[column]

\* "(mileage['last'] or 0) - (mileage['first'] or 0)"
Span(S, column) == OrZero(MaxColumn(S, column)) - OrZero(MinColumn(S, column))

\* the distance with no recourse to the mileage history
TotalMiles_FuelOnly(fuel, history) == Span(fuel, "odometer")

\* total_miles: the span of the fuel odometers, or of the mileage history
\* when that span is not positive
TotalMiles(fuel, history) ==
  IF Span(fuel, "odometer") <= 0 THEN Span(history, "mileage")
  ELSE Span(fuel, "odometer")

\* "x / total_miles if total_miles > 0 else 0", rounded to 3 decimals
PerMile(cents, total_miles) ==
  IF total_miles > 0 THEN RoundHalfEven(10 * cents, total_miles) ELSE 0

\* AnalyticsService.calculate_cost_per_mile(vin)
CalculateCostPerMile(vin) ==
  LET repair_cost == SumColumn({r \in repairs : r.vin = vin}, "cost")
      fuel_cost == SumColumn({r \in fuel_logs : r.vin = vin}, "total_cost")
      total_cost == repair_cost + fuel_cost
      total_miles == TotalMiles({r \in fuel_logs : r.vin = vin},
                                {r \in mileage_history : r.vin = vin})
  IN /\ last' = Resp("calculate_cost_per_mile", TRUE, "", vin, NULL, NULL,
                     <<[total_cost |-> total_cost, repair_cost |-> repair_cost,
                        fuel_cost |-> fuel_cost, total_miles |-> total_miles,
                        cost_per_mile |-> PerMile(total_cost, total_miles),
                        fuel_cost_per_mile |-> PerMile(fuel_cost, total_miles),
                        repair_cost_per_mile |-> PerMile(repair_cost, total_miles)]>>)
     /\ NoChange
     /\ UNCHANGED <<calls, requests>>

\* the rows of the three tables the calculation is applied to: costs in
\* cents, as RepairService.create, FuelLogService.create and
\* MileageService.create store them
MaxCostRows == 2

CostRepairInputs ==
  {[vin |-> "V1", cost |-> 10000], [vin |-> "V1", cost |-> 4500],
   [vin |-> "V2", cost |-> 10000]}

CostFuelInputs ==
  {[vin |-> "V1", total_cost |-> 2500, odometer |-> 1000],
   [vin |-> "V1", total_cost |-> 2500, odometer |-> 1300],
   [vin |-> "V1", total_cost |-> 5000, odometer |-> 1300],
   [vin |-> "V2", total_cost |-> 2500, odometer |-> 5000]}

CostMileageInputs ==
  {[vin |-> "V1", mileage |-> 100], [vin |-> "V1", mileage |-> 500]}

\* the tables holding the rows of a list of inputs, with ids in order
RowsOf(inputs) == {[id |-> i] @@ inputs[i] : i \in DOMAIN inputs}

ListsOf(S, n) == UNION {[1..k -> S] : k \in 0..n}

InitCost ==
  /\ schema = "inline"
  /\ vehicles = {}
  /\ maintenance_intervals = {}
  /\ \E rows \in ListsOf(CostRepairInputs, MaxCostRows) : repairs = RowsOf(rows)
  /\ \E rows \in ListsOf(CostFuelInputs, MaxCostRows) : fuel_logs = RowsOf(rows)
  /\ \E rows \in ListsOf(CostMileageInputs, MaxCostRows) : mileage_history = RowsOf(rows)
  /\ trips = {}
  /\ next_id = [maintenance_intervals |-> 1, repairs |-> Cardinality(repairs) + 1,
                fuel_logs |-> Cardinality(fuel_logs) + 1,
                mileage_history |-> Cardinality(mileage_history) + 1, trips |-> 1]
  /\ last = NoCall
  /\ calls = 0
  /\ requests = <<>>

NextCost == \E vin \in VINs : CalculateCostPerMile(vin)

SpecCost == InitCost /\ [][NextCost]_vars

(***************************************************************************)
(* Monthly spending: AnalyticsService.get_monthly_spending.  A stored date *)
(* is the text validate_date accepted: strptime(text, '%Y-%m-%d') also     *)
(* takes a month or a day written with one digit.  Of a date the model     *)
(* keeps the text, what strftime('%Y-%m', text) yields in SQLite (the      *)
(* month as the number YYYYMM; NULL for a text that is not YYYY-MM-DD),    *)
(* the calendar month it names, its place (rank) in the order of the texts *)
(* as strings, which is how "date >= date('now', ?)" compares, and its     *)
(* place (ordinal) in the order of the days.  The window bounds are those  *)
(* of a call made on 2026-11-03.                                           *)
(***************************************************************************)
SpendDates ==
  {[text |-> "2025-08-05", month |-> 202508, calendar |-> 202508, rank |-> 1, ordinal |-> 1],
   [text |-> "2026-08-05", month |-> 202608, calendar |-> 202608, rank |-> 3, ordinal |-> 3],
   [text |-> "2026-09-06", month |-> 202609, calendar |-> 202609, rank |-> 4, ordinal |-> 5],
   [text |-> "2026-9-5",   month |-> NULL,   calendar |-> 202609, rank |-> 6, ordinal |-> 4]}

\* date('now', '-12 months') = "2025-11-03", date('now', '-1 months') = "2026-10-03"
WindowStart(months) ==
  IF months = 12 THEN [rank |-> 2, ordinal |-> 2] ELSE [rank |-> 5, ordinal |-> 6]

\* "WHERE vin = ? AND date >= date('now', ?)"
InWindow(tbl, vin, months) ==
  {r \in tbl : r.vin = vin /\ r.date.rank >= WindowStart(months).rank}

\* "GROUP BY strftime('%Y-%m', date)": the keys of the groups
MonthKeys(rows) == {r.date.month : r \in rows}

\* "SUM(column) as amount" of the group of a month; 0 is the default of a
\* month the category has no group for
MonthAmount(rows, month, column) ==
  SumColumn({r \in rows : r.date.month = month}, column)

\* sorted(monthly.keys())
SortedKeys(keys) ==
  CHOOSE s \in Listings(keys) : \A i \in 1..(Len(s) - 1) : s[i] < s[i + 1]

\* AnalyticsService.get_monthly_spending(vin, months); sorted() raises
\* TypeError when None is among several keys
GetMonthlySpending(vin, months) ==
  LET repair_rows == InWindow(repairs, vin, months)
      fuel_rows == InWindow(fuel_logs, vin, months)
      keys == MonthKeys(repair_rows) \cup MonthKeys(fuel_rows)
      order == SortedKeys(keys)
  IN /\ last' =
          IF NULL \in keys /\ Cardinality(keys) > 1
          THEN Resp("get_monthly_spending", FALSE, "TYPE_ERROR", vin, NULL, months, <<>>)
          ELSE Resp("get_monthly_spending", TRUE, "", vin, NULL, months,
                    [i \in 1..Len(order) |->
                       [month |-> order[i],
                        repairs |-> MonthAmount(repair_rows, order[i], "cost"),
                        fuel |-> MonthAmount(fuel_rows, order[i], "total_cost"),
                        total |-> MonthAmount(repair_rows, order[i], "cost")
                                  + MonthAmount(fuel_rows, order[i], "total_cost")]])
     /\ NoChange
     /\ UNCHANGED <<calls, requests>>

\* the repairs and fuel logs the breakdown is applied to, as
\* RepairService.create and FuelLogService.create store them
MaxSpendRows == 2

SpendRepairInputs ==
  {[vin |-> "V1", cost |-> 4500, date |-> d] : d \in SpendDates}
    \cup {[vin |-> v, cost |-> 10000, date |-> d] :
            v \in VINs, d \in {x \in SpendDates : x.text = "2026-08-05"}}

SpendFuelInputs ==
  {[vin |-> "V1", total_cost |-> 4646, date |-> d] :
     d \in {x \in SpendDates : x.text = "2026-08-05"}}
    \cup {[vin |-> "V1", total_cost |-> 2500, date |-> d] :
            d \in {x \in SpendDates : x.text \in {"2026-09-06", "2025-08-05"}}}
    \cup {[vin |-> "V2", total_cost |-> 2500, date |-> d] :
            d \in {x \in SpendDates : x.text = "2026-08-05"}}

InitSpend ==
  /\ schema = "inline"
  /\ vehicles = {}
  /\ maintenance_intervals = {}
  /\ \E rows \in ListsOf(SpendRepairInputs, MaxSpendRows) : repairs = RowsOf(rows)
  /\ \E rows \in ListsOf(SpendFuelInputs, MaxSpendRows) : fuel_logs = RowsOf(rows)
  /\ mileage_history = {}
  /\ trips = {}
  /\ next_id = [maintenance_intervals |-> 1, repairs |-> Cardinality(repairs) + 1,
                fuel_logs |-> Cardinality(fuel_logs) + 1,
                mileage_history |-> 1, trips |-> 1]
  /\ last = NoCall
  /\ calls = 0
  /\ requests = <<>>

NextSpend == \E vin \in VINs, months \in {1, 12} : GetMonthlySpending(vin, months)

SpecSpend == InitSpend /\ [][NextSpend]_vars

(***************************************************************************)
(* The update operations of the dependent records.  Each service method    *)
(* prepares the payload and then calls BaseService.update, which looks the *)
(* row up, raises NotFoundError when there is none, and writes the allowed *)
(* columns.  A payload is given by the values of the columns the model     *)
(* keeps; ABSENT is a payload that does not name the column.               *)
(***************************************************************************)
\* RepairService.update(repair_id, data): cost is data['cost']
RepairUpdate(id, cost) ==
  IF cost # ABSENT /\ ~ValidNumber(cost)
  THEN /\ last' = Fail("repair_update", "VALIDATION_ERROR")
       /\ NoChange
  ELSE IF ~ \E r \in repairs : r.id = id
  THEN /\ last' = Fail("repair_update", "NOT_FOUND")
       /\ NoChange
  ELSE LET existing == CHOOSE r \in repairs : r.id = id
       IN /\ repairs' = (repairs \ {existing}) \cup
                          {IF cost = ABSENT THEN existing
                           ELSE [existing EXCEPT !.cost = cost]}
          /\ last' = Resp("repair_update", TRUE, "", existing.vin, id, cost, <<>>)
          /\ UNCHANGED <<schema, vehicles, maintenance_intervals, fuel_logs,
                         mileage_history, trips, next_id>>

\* FuelLogService.update(log_id, data): gallons and odometer are the payload's
\* values.  With gallons in the payload the row is read before
\* BaseService.update is reached, to recompute total_cost, and
\* existing['gallons'] is evaluated on the result of that read.
FuelLogUpdate(id, gallons, odometer) ==
  IF (gallons # ABSENT /\ ~ValidNumber(gallons))
     \/ (odometer # ABSENT /\ ~ValidNumber(odometer))
  THEN /\ last' = Fail("fuel_update", "VALIDATION_ERROR")
       /\ NoChange
  ELSE IF ~ \E r \in fuel_logs : r.id = id
  THEN \* None['gallons'] raises TypeError
       /\ last' = Fail("fuel_update",
                       IF gallons # ABSENT THEN "TYPE_ERROR" ELSE "NOT_FOUND")
       /\ NoChange
  ELSE LET existing == CHOOSE r \in fuel_logs : r.id = id
           row == [existing EXCEPT
                     !.gallons = IF gallons = ABSENT THEN @ ELSE gallons,
                     !.odometer = IF odometer = ABSENT THEN @ ELSE odometer]
       IN /\ fuel_logs' = (fuel_logs \ {existing}) \cup {row}
          /\ last' = Resp("fuel_update", TRUE, "", existing.vin, id, gallons, <<>>)
          /\ UNCHANGED <<schema, vehicles, maintenance_intervals, repairs,
                         mileage_history, trips, next_id>>

\* "if start and end: data['distance'] = end - start": the distance column
\* after an update whose payload names a mileage; start and end are the
\* payload's values where it names them and the row's otherwise
TripDistance(existing, start, end) ==
  IF Truthy(start) /\ Truthy(end) THEN end - start ELSE existing.distance

\* TripService.update(trip_id, data): start_mileage and end_mileage are the
\* payload's values, which the method does not validate.  With either in the
\* payload the row is read before BaseService.update is reached, and
\* existing.get is evaluated on the result of that read.
TripUpdate(id, start_mileage, end_mileage) ==
  LET recalculate == start_mileage # ABSENT \/ end_mileage # ABSENT
  IN IF ~ \E r \in trips : r.id = id
     THEN \* None.get raises AttributeError
          /\ last' = Fail("trip_update",
                          IF recalculate THEN "ATTRIBUTE_ERROR" ELSE "NOT_FOUND")
          /\ NoChange
     ELSE LET existing == CHOOSE r \in trips : r.id = id
              start == IF start_mileage = ABSENT
                       THEN existing.start_mileage ELSE start_mileage
              end == IF end_mileage = ABSENT THEN existing.end_mileage ELSE end_mileage
              row == [existing EXCEPT
                        !.start_mileage = start,
                        !.end_mileage = end,
                        !.distance = IF recalculate
                                     THEN TripDistance(existing, start, end) ELSE @]
          IN /\ trips' = (trips \ {existing}) \cup {row}
             /\ last' = Resp("trip_update", TRUE, "", existing.vin, id, NULL, <<>>)
             /\ UNCHANGED <<schema, vehicles, maintenance_intervals, repairs,
                            fuel_logs, mileage_history, next_id>>

\* the ids the update requests name: those of the rows and one beyond them
RecordIds == 1..(MaxDepId + 1)

\* the payload values of the record requests
TripStarts == {ABSENT, NULL, 0, 100}
TripEnds == {ABSENT, NULL, 50, 150}
RecordGallons == {ABSENT, BAD, 12}
RecordOdometers == {ABSENT, 2000}
RecordCosts == {ABSENT, BAD, 5}

NextRecords ==
  \/ \E vin \in SchedOwned, cm \in {ABSENT, 100} : Write /\ VehicleCreate(vin, TRUE, cm)
  \/ \E vin \in VINs, cm \in {ABSENT, 200} : Write /\ VehicleUpdate(vin, cm)
  \/ \E id \in RecordIds, st \in ServiceTypes : Write /\ MaintUpdate(id, "service_type", st)
  \/ \E vin \in VINs : Write /\ RepairCreate(vin, 45)
  \/ \E id \in RecordIds, cost \in RecordCosts : Write /\ RepairUpdate(id, cost)
  \/ \E vin \in VINs : Write /\ FuelLogCreate(vin, 10, 1000, ABSENT)
  \/ \E id \in RecordIds, gallons \in RecordGallons, odometer \in RecordOdometers :
       Write /\ FuelLogUpdate(id, gallons, odometer)
  \/ \E vin \in VINs, start_mileage \in TripStarts \ {NULL}, end_mileage \in TripEnds \cup {BAD} :
       Write /\ TripCreate(vin, start_mileage, end_mileage)
  \/ \E id \in RecordIds, start_mileage \in TripStarts, end_mileage \in TripEnds :
       Write /\ TripUpdate(id, start_mileage, end_mileage)

SpecRecords == Init /\ [][NextRecords]_vars

(***************************************************************************)
(* validate_vin.  A text is a sequence of characters; the model's          *)
(* characters are the ones the function tells apart: letters in either     *)
(* case, the forbidden letters, a digit, white space, and "sz" for the     *)
(* sharp s, which str.upper() turns into the two letters SS.               *)
(***************************************************************************)
VinLength == 17

Whitespace == {" ", "\t"}

\* str.upper() of one character
UpperChar(c) ==
  CASE c = "a" -> <<"A">>
    [] c = "i" -> <<"I">>
    [] c = "o" -> <<"O">>
    [] c = "q" -> <<"Q">>
    [] c = "sz" -> <<"S", "S">>
    [] OTHER -> <<c>>

RECURSIVE Upper(_)
Upper(text) ==
  IF text = <<>> THEN <<>> ELSE UpperChar(Head(text)) \o Upper(Tail(text))

RECURSIVE StripLeft(_)
StripLeft(text) ==
  IF text # <<>> /\ Head(text) \in Whitespace THEN StripLeft(Tail(text)) ELSE text

RECURSIVE StripRight(_)
StripRight(text) ==
  IF text # <<>> /\ text[Len(text)] \in Whitespace
  THEN StripRight(SubSeq(text, 1, Len(text) - 1)) ELSE text

\* str.strip()
Strip(text) == StripRight(StripLeft(text))

\* validate_vin with the length taken before the text is trimmed
ValidateVin_LengthFirst(vin) ==
  LET v == Upper(Strip(vin))
  IN IF Len(vin) # VinLength \/ \E i \in 1..Len(v) : v[i] \in {"I", "O", "Q"}
     THEN [ok |-> FALSE, value |-> <<>>]
     ELSE [ok |-> TRUE, value |-> v]

\* validate_vin(vin): ok is FALSE where ValidationError is raised
ValidateVin(vin) ==
  IF vin = <<>> THEN [ok |-> FALSE, value |-> <<>>]
  ELSE LET v == Upper(Strip(vin))
       IN IF Len(v) # VinLength THEN [ok |-> FALSE, value |-> <<>>]
          ELSE IF \E i \in 1..Len(v) : v[i] \in {"I", "O", "Q"}
          THEN [ok |-> FALSE, value |-> <<>>]
          ELSE [ok |-> TRUE, value |-> v]

\* the response of a call of validate_vin on text
VinResponse(text) ==
  LET r == ValidateVin(text)
  IN Resp("validate_vin", r.ok, IF r.ok THEN "" ELSE "VALIDATION_ERROR",
          "", NULL, text, IF r.ok THEN <<r.value>> ELSE <<>>)

\* the inputs: fill characters with one position holding any character,
\* between optional runs of white space
VinChars == {"a", "A", "i", "O", "q", "7", "sz", " "}
VinFill == {"a", "7"}
VinPads == {<<>>, <<" ">>, <<"\t", " ">>}
VinBodyLengths == {0, 1, VinLength - 2, VinLength - 1, VinLength, VinLength + 1}

VinInputs ==
  {left \o [i \in 1..n |-> IF i = p[1] THEN p[2] ELSE fill] \o right :
     left \in VinPads, right \in VinPads, n \in VinBodyLengths, fill \in VinFill,
     p \in (1..VinLength + 1) \X VinChars}

\* the store is not involved; the text to validate waits in the response slot
InitVin ==
  /\ schema = "inline"
  /\ vehicles = {}
  /\ maintenance_intervals = {}
  /\ repairs = {}
  /\ fuel_logs = {}
  /\ mileage_history = {}
  /\ trips = {}
  /\ next_id = [maintenance_intervals |-> 1, repairs |-> 1, fuel_logs |-> 1,
                mileage_history |-> 1, trips |-> 1]
  /\ \E text \in VinInputs : last = Resp("input", TRUE, "", "", NULL, text, <<>>)
  /\ calls = 0
  /\ requests = <<>>

\* a call of validate_vin on the input
ValidateVinCall ==
  /\ last.op = "input"
  /\ last' = VinResponse(last.arg)
  /\ NoChange
  /\ Read

\* a call of validate_vin on the text the previous call returned
ValidateVinAgain ==
  /\ last.op = "validate_vin" /\ last.ok
  /\ last' = VinResponse(last.result[1])
  /\ NoChange
  /\ Read

NextVin == ValidateVinCall \/ ValidateVinAgain

SpecVin == InitVin /\ [][NextVin]_vars

(***************************************************************************)
(* The views of what is overdue: get_overdue, the statuses of              *)
(* get_maintenance_schedule, and the overdue_maintenance list of           *)
(* AnalyticsService.get_vehicle_dashboard.  MaintenanceService.update      *)
(* (BaseService.update) stores the next_due_mileage of the payload as it   *)
(* is; an integer below BAD is that negative number itself.                *)
(***************************************************************************)
\* "SELECT service_type, next_due_mileage"
DashboardColumns(r) ==
  [service_type |-> r.service_type, next_due_mileage |-> r.next_due_mileage]

\* AnalyticsService.get_vehicle_dashboard(vin): of the returned dict the model
\* keeps current_mileage (arg) and overdue_maintenance (result); the query has
\* no ORDER BY
GetVehicleDashboard(vin) ==
  /\ IF VehicleRows(vehicles, vin) = {}
     THEN \* "return {'error': 'Vehicle not found'}"
          last' = Resp("get_vehicle_dashboard", FALSE, "VEHICLE_NOT_FOUND", vin,
                       NULL, NULL, <<>>)
     ELSE LET current_mileage == OrZero(CurrentMileage(vehicles, vin))
          IN \E s \in Listings(OverdueRows(maintenance_intervals, vin, current_mileage)) :
               last' = Resp("get_vehicle_dashboard", TRUE, "", vin, NULL, current_mileage,
                            [i \in 1..Len(s) |-> DashboardColumns(s[i])])
  /\ NoChange

\* the next_due_mileage values of the update payloads
ViewNextDues == {NULL, 0 - 5, 50, 100, 6000}

NextViews ==
  \/ \E vin \in SchedOwned, cm \in {ABSENT, 100} : Write /\ VehicleCreate(vin, TRUE, cm)
  \/ \E vin \in VINs, cm \in {NULL, 100} : Write /\ VehicleUpdate(vin, cm)
  \/ \E vin \in VINs, st \in ServiceTypes :
       Write /\ MaintenanceCreateCall(vin, st, 499, ABSENT)
  \/ \E id \in 1..MaxId, nd \in ViewNextDues :
       Write /\ MaintUpdate(id, "next_due_mileage", nd)
  \/ \E vin \in VINs : Read /\ GetOverdue(vin)
  \/ \E vin \in VINs : Read /\ GetMaintenanceSchedule(vin)
  \/ \E vin \in VINs : Read /\ GetVehicleDashboard(vin)

SpecViews == Init /\ [][NextViews]_vars

(***************************************************************************)
(* The two calculate_mpg methods side by side.  Both run the same query,   *)
(* up to the columns selected and the row limit, against the same store,   *)
(* so the engine returns rows of equal odometer in the same order to both: *)
(* the order is any one that ORDER BY odometer DESC allows, and each       *)
(* method cuts it at its own limit.                                        *)
(***************************************************************************)
\* the listings of S in descending odometer order
RECURSIVE DescListings(_)
DescListings(S) ==
  IF S = {} THEN {<<>>}
  ELSE UNION {{<<r>> \o t : t \in DescListings(S \ {r})} :
                r \in {x \in S : \A y \in S : y.odometer <= x.odometer}}

\* AnalyticsService.calculate_mpg on the ordered full-tank rows: "LIMIT 11"
AnalyticsMpg(s) == MpgResult(Limit(s, 11))

\* FuelLogService.calculate_mpg cut at limit rows
FuelLogMpg_NoExtraRow(s, limit) == MpgResult(Limit(s, limit))

\* FuelLogService.calculate_mpg on the ordered full-tank rows: "LIMIT ?"
\* bound to limit + 1
FuelLogMpg(s, limit) == MpgResult(Limit(s, limit + 1))

\* calculate_mpg(vin) of both services on one store state, the second with
\* its default limit of 10; result holds the two dicts
CalculateMpgBoth(vin) ==
  /\ \E s \in DescListings({r \in fuel_logs : r.vin = vin /\ r.full_tank = 1}) :
       last' = Resp("calculate_mpg_both", TRUE, "", vin, NULL, Len(s),
                    <<AnalyticsMpg(s), FuelLogMpg(s, 10)>>)
  /\ NoChange
  /\ Read

\* the stores the comparison starts from: n fuel logs of V1 with rising
\* odometers, 2 gallons each and full tanks, except that the log at tie
\* repeats the odometer of the one before it, the log at odd has the volume
\* gallons, and the log at partial is not a full tank (position 0: no such log)
PairLogCounts == {0, 1, 2, 3, 10, 11, 12}

PairLogs(n, tie, odd, gallons, partial) ==
  {[id |-> i, vin |-> "V1",
    odometer |-> 1000 + 100 * (IF i = tie THEN i - 1 ELSE i),
    gallons |-> IF i = odd THEN gallons ELSE 2,
    full_tank |-> IF i = partial THEN 0 ELSE 1] : i \in 1..n}

InitMpgBoth ==
  /\ schema = "inline"
  /\ vehicles = {[vin |-> "V1", current_mileage |-> 0]}
  /\ maintenance_intervals = {}
  /\ repairs = {}
  /\ \E n \in PairLogCounts :
       \E tie \in {0} \cup 2..n, odd \in 0..n, gallons \in {0, 1}, partial \in 0..n :
         fuel_logs = PairLogs(n, tie, odd, gallons, partial)
  /\ mileage_history = {}
  /\ trips = {}
  /\ next_id = [maintenance_intervals |-> 1, repairs |-> 1,
                fuel_logs |-> Cardinality(fuel_logs) + 1,
                mileage_history |-> 1, trips |-> 1]
  /\ last = NoCall
  /\ calls = 0
  /\ requests = <<>>

NextMpgBoth == \E vin \in VINs : CalculateMpgBoth(vin)

SpecMpgBoth == InitMpgBoth /\ [][NextMpgBoth]_vars

(***************************************************************************)
(* The scopes connection() and transaction() of db_helper.  A use of a     *)
(* scope is a request in flight: the record holds the kind of scope, the   *)
(* line it is at (pc), the state of its connection (conn), the rows its    *)
(* body has written and not committed (pending), the repairs table as it   *)
(* was on entry (before), and what has happened: the body returned         *)
(* (finished), an exception is in flight (raised), the commit or the       *)
(* rollback that was run (outcome).  sqlite3.connect, BEGIN, a statement   *)
(* of the body and commit() can each raise; the PRAGMA of get_connection   *)
(* sets a flag of the connection and does not touch the file.              *)
(***************************************************************************)
MaxStatements == 2

ScopeKinds == {"connection", "transaction"}

Scope(kind, pc, conn, pending, before, finished, raised, outcome) ==
  [kind |-> kind, pc |-> pc, conn |-> conn, pending |-> pending, before |-> before,
   finished |-> finished, raised |-> raised, outcome |-> outcome]

\* the steps of a scope touch the repairs table only, and that at commit
ScopeFrame ==
  UNCHANGED <<schema, vehicles, maintenance_intervals, fuel_logs, mileage_history,
              trips, next_id, last, calls>>

\* "with connection() as conn:" or "with transaction() as conn:" is entered;
\* uses follow one another
EnterScope(kind) ==
  /\ IF requests = <<>> THEN TRUE ELSE requests[1].pc = "exited"
  /\ calls < MaxCalls
  /\ calls' = calls + 1
  /\ requests' = <<Scope(kind, "connect", "none", {}, repairs, FALSE, FALSE, "none")>>
  /\ UNCHANGED <<schema, vehicles, maintenance_intervals, repairs, fuel_logs,
                 mileage_history, trips, next_id, last>>

\* "conn = get_connection()": sqlite3.connect returns a connection or raises
Connect ==
  /\ requests # <<>> /\ requests[1].pc = "connect"
  /\ \/ requests' = [requests EXCEPT
                       ![1].conn = "open",
                       ![1].pc = IF requests[1].kind = "transaction"
                                 THEN "begin" ELSE "body"]
     \/ requests' = [requests EXCEPT ![1].raised = TRUE, ![1].pc = "except"]
  /\ UNCHANGED repairs
  /\ ScopeFrame

\* transaction(): conn.execute("BEGIN TRANSACTION")
Begin ==
  /\ requests # <<>> /\ requests[1].pc = "begin"
  /\ \/ requests' = [requests EXCEPT ![1].pc = "body"]
     \/ requests' = [requests EXCEPT ![1].raised = TRUE, ![1].pc = "except"]
  /\ UNCHANGED repairs
  /\ ScopeFrame

\* a statement of the body: an INSERT into repairs, held by the connection
\* until it commits
BodyStatement ==
  /\ requests # <<>> /\ requests[1].pc = "body"
  /\ Cardinality(requests[1].pending) < MaxStatements
  /\ requests' = [requests EXCEPT
                    ![1].pending = @ \cup
                      {[id |-> next_id.repairs + Cardinality(@), vin |-> "V1", cost |-> 45]}]
  /\ UNCHANGED repairs
  /\ ScopeFrame

\* the body raises
BodyRaises ==
  /\ requests # <<>> /\ requests[1].pc = "body"
  /\ requests' = [requests EXCEPT ![1].raised = TRUE, ![1].pc = "except"]
  /\ UNCHANGED repairs
  /\ ScopeFrame

\* the body returns: control is back after the yield
BodyReturns ==
  /\ requests # <<>> /\ requests[1].pc = "body"
  /\ requests' = [requests EXCEPT ![1].finished = TRUE, ![1].pc = "commit"]
  /\ UNCHANGED repairs
  /\ ScopeFrame

\* "conn.commit()": the pending rows reach the table, or commit raises
Commit ==
  /\ requests # <<>> /\ requests[1].pc = "commit"
  /\ \/ /\ repairs' = repairs \cup requests[1].pending
        /\ requests' = [requests EXCEPT ![1].pending = {}, ![1].outcome = "committed",
                                        ![1].pc = "finally"]
     \/ /\ requests' = [requests EXCEPT ![1].raised = TRUE, ![1].pc = "except"]
        /\ UNCHANGED repairs
  /\ ScopeFrame

\* "except Exception: if conn: conn.rollback() .. raise"
ExceptClause ==
  /\ requests # <<>> /\ requests[1].pc = "except"
  /\ requests' = IF requests[1].conn = "open"
                 THEN [requests EXCEPT ![1].pending = {}, ![1].outcome = "rolled_back",
                                       ![1].pc = "finally"]
                 ELSE [requests EXCEPT ![1].pc = "finally"]
  /\ UNCHANGED repairs
  /\ ScopeFrame

\* the finally clause closing the connection on the normal path only
FinallyClause_OnSuccess ==
  /\ requests # <<>> /\ requests[1].pc = "finally"
  /\ requests' = IF requests[1].conn = "open" /\ ~requests[1].raised
                 THEN [requests EXCEPT ![1].conn = "closed", ![1].pc = "exited"]
                 ELSE [requests EXCEPT ![1].pc = "exited"]
  /\ UNCHANGED repairs
  /\ ScopeFrame

\* "finally: if conn: conn.close()"; the scope is left, with the exception
\* where one is in flight
FinallyClause ==
  /\ requests # <<>> /\ requests[1].pc = "finally"
  /\ requests' = IF requests[1].conn = "open"
                 THEN [requests EXCEPT ![1].conn = "closed", ![1].pc = "exited"]
                 ELSE [requests EXCEPT ![1].pc = "exited"]
  /\ UNCHANGED repairs
  /\ ScopeFrame

NextScope ==
  \/ \E kind \in ScopeKinds : EnterScope(kind)
  \/ Connect
  \/ Begin
  \/ BodyStatement
  \/ BodyRaises
  \/ BodyReturns
  \/ Commit
  \/ ExceptClause
  \/ FinallyClause

\* the lines of a scope that has been entered are run to its end
SpecScope ==
  /\ Init
  /\ [][NextScope]_vars
  /\ WF_vars(Connect \/ Begin \/ BodyRaises \/ BodyReturns \/ Commit
               \/ ExceptClause \/ FinallyClause)

(***************************************************************************)
(* Properties                                                              *)
(***************************************************************************)

\* C1: in every reachable state there is at most one maintenance_intervals
\* row per (vin, service_type) pair.
C1_OneIntervalPerPair ==
  \A r1, r2 \in maintenance_intervals :
    (r1.vin = r2.vin /\ r1.service_type = r2.service_type) => r1.id = r2.id

\* C2: across VehicleService.update, VehicleService.update_mileage and
\* MileageService.create, a vehicle's current_mileage after the call is at
\* least its value before the call (no reading counts as 0).
C2_MileageNeverDecreases ==
  [][last'.op \in {"vehicle_update", "update_mileage", "mileage_create"} =>
       \A v \in vehicles, w \in vehicles' :
         v.vin = w.vin => OrZero(w.current_mileage) >= OrZero(v.current_mileage)]_vars

\* C3: after a successful VehicleService.delete(vin) no row with that vin is
\* left in repairs, fuel_logs, maintenance_intervals, mileage_history or
\* trips, and the vehicle row is gone.
C3_DeleteLeavesNoRows ==
  (last.op = "vehicle_delete" /\ last.ok) =>
    \A tbl \in {vehicles, repairs, fuel_logs, maintenance_intervals,
                mileage_history, trips} :
      \A r \in tbl : r.vin # last.vin

\* a successful delete that removed dependent rows
C3_Witness ==
  last.op = "vehicle_delete" /\ last.ok /\ last.arg > 0

\* C4: an initialize_for_vehicle call that directly follows a successful
\* initialize_for_vehicle call for the same vehicle inserts, changes and
\* removes no maintenance_intervals row.
C4_InitializeIdempotent ==
  [][(/\ last.op = "initialize_for_vehicle" /\ last.ok
      /\ last'.op = "initialize_for_vehicle" /\ last'.ok
      /\ last'.vin = last.vin /\ last'.arg >= 1)
       => /\ maintenance_intervals' = maintenance_intervals
          /\ next_id' = next_id]_vars

\* the second of two calls in a row, the first of which inserted rows
C4_Witness ==
  /\ last.op = "initialize_for_vehicle" /\ last.ok /\ last.arg >= 2
  /\ \A st \in DefaultTypes : IntervalRows(maintenance_intervals, last.vin, st) # {}

\* the response of one of the two fuel-economy calculations
IsMpg == last.op \in {"analytics_calculate_mpg", "fuel_log_calculate_mpg"}

\* the indices i of the consecutive pairs (logs[i], logs[i + 1]) that yield a
\* sample, when the sample divides by the volume of logs[i + shift]
SamplePairs(logs, shift) ==
  LET Yields(i) == /\ logs[i].odometer - logs[i + 1].odometer > 0
                   /\ logs[i + shift].gallons > 0
  IN SelectSeq([i \in 1..(Len(logs) - 1) |-> i], Yields)

\* the samples are the odometer differences of the yielding pairs, each
\* divided by the volume of the entry at offset shift of its pair
SamplesDivideBy(logs, samples, shift) ==
  LET pairs == SamplePairs(logs, shift)
  IN /\ Len(samples) = Len(pairs)
     /\ \A k \in 1..Len(pairs) :
          samples[k] = <<logs[pairs[k]].odometer - logs[pairs[k] + 1].odometer,
                         logs[pairs[k] + shift].gallons>>

\* the full-tank entries 1300 (10 gal) and 1000 (5 gal), in descending order
SpecExample ==
  /\ IsMpg /\ Len(last.arg) = 2
  /\ last.arg[1].odometer = 1300 /\ last.arg[1].gallons = 10
  /\ last.arg[2].odometer = 1000 /\ last.arg[2].gallons = 5

AllFour(res, tenths) ==
  /\ res.count = 1
  /\ res.average_mpg = <<tenths>> /\ res.last_mpg = <<tenths>>
  /\ res.best_mpg = <<tenths>> /\ res.worst_mpg = <<tenths>>

\* C5 as stated: each consecutive pair of full-tank entries yields the sample
\* (odometer difference) / (volume of the earlier, lower-odometer entry), so
\* 1000 (5 gal) and 1300 (10 gal) give one sample 60.0 and average, last,
\* best and worst 60.0.
C5_SampleDividesByEarlierVolume ==
  (IsMpg /\ Len(last.arg) >= 2) =>
    /\ SamplesDivideBy(last.arg, last.result[1].mpg_values, 1)
    /\ SpecExample => AllFour(last.result[1], 600)

\* C5 amended: each consecutive pair of full-tank entries (descending
\* odometer) with a positive odometer difference and a positive volume of
\* its later, higher-odometer entry yields the sample (odometer difference)
\* / (volume of that later entry); 1000 (5 gal) and 1300 (10 gal) give one
\* sample 30.0 and average, last, best and worst 30.0.
C5_SampleDividesByLaterVolume ==
  (IsMpg /\ Len(last.arg) >= 2) =>
    /\ SamplesDivideBy(last.arg, last.result[1].mpg_values, 0)
    /\ last.result[1].count = Len(SamplePairs(last.arg, 0))
    /\ SpecExample => AllFour(last.result[1], 300)

C5_Witness == SpecExample /\ last.result[1].average_mpg = <<300>>

\* C6: the fuel-economy calculation never fails or divides by zero; with
\* fewer than 2 full-tank entries, or when every consecutive pair has a
\* non-positive odometer difference or a zero volume to divide by, it returns
\* average = none, last = none and count 0; no partial-tank entry is used.
C6_NoDataNeverFails ==
  IsMpg =>
    /\ last.ok
    /\ \A k \in 1..Len(last.result[1].mpg_values) : last.result[1].mpg_values[k][2] > 0
    /\ \A i \in 1..Len(last.arg) : last.arg[i].full_tank = 1 /\ last.arg[i].vin = last.vin
    /\ (\/ Cardinality({r \in fuel_logs : r.vin = last.vin /\ r.full_tank = 1}) < 2
        \/ \A i \in 1..(Len(last.arg) - 1) :
             \/ last.arg[i].odometer - last.arg[i + 1].odometer <= 0
             \/ last.arg[i].gallons = 0)
         => /\ last.result[1].average_mpg = <<>>
            /\ last.result[1].last_mpg = <<>>
            /\ last.result[1].count = 0

\* two full-tank entries a positive distance apart, the later of volume 0,
\* next to a partial-tank entry
C6_Witness ==
  /\ IsMpg /\ last.ok /\ Len(last.arg) = 2
  /\ last.arg[1].odometer > last.arg[2].odometer /\ last.arg[1].gallons = 0
  /\ \E r \in fuel_logs : r.vin = last.vin /\ r.full_tank = 0
  /\ last.result[1].count = 0

\* the interval row a successful record_service updated
RecordedRow == CHOOSE r \in maintenance_intervals : r.id = last.id

\* C7: after a successful record_service on an interval whose interval_miles
\* is set and positive, last_performed_mileage is the supplied mileage (the
\* vehicle's current_mileage when the mileage is omitted) and
\* next_due_mileage = last_performed_mileage + interval_miles >= the
\* recorded mileage.
C7_RecordServiceNextDue ==
  (last.op = "record_service" /\ last.ok /\ RecordedRow.interval_miles > 0) =>
    /\ last.arg # ABSENT => RecordedRow.last_performed_mileage = last.arg
    /\ (last.arg = ABSENT /\ VehicleRows(vehicles, last.vin) # {}) =>
         RecordedRow.last_performed_mileage = CurrentMileage(vehicles, last.vin)
    /\ RecordedRow.next_due_mileage =
         RecordedRow.last_performed_mileage + RecordedRow.interval_miles
    /\ RecordedRow.next_due_mileage >= RecordedRow.last_performed_mileage

\* a service recorded without a mileage on a vehicle that has a reading
C7_Witness ==
  /\ last.op = "record_service" /\ last.ok /\ last.arg = ABSENT
  /\ RecordedRow.interval_miles > 0
  /\ RecordedRow.last_performed_mileage > 0

\* C8: get_overdue(vin) returns exactly the vehicle's intervals whose
\* next_due_mileage is non-null and strictly less than the vehicle's
\* current_mileage, in ascending next_due_mileage order, and the empty list
\* when the vehicle is absent or its current_mileage is 0 or null.
C8_OverdueExact ==
  last.op = "get_overdue" =>
    LET known == /\ VehicleRows(vehicles, last.vin) # {}
                 /\ CurrentMileage(vehicles, last.vin) \notin {0, NULL}
        returned == {last.result[i] : i \in 1..Len(last.result)}
    IN /\ ~known => last.result = <<>>
       /\ known =>
            /\ returned = {r \in maintenance_intervals :
                             /\ r.vin = last.vin
                             /\ r.next_due_mileage # NULL
                             /\ r.next_due_mileage < CurrentMileage(vehicles, last.vin)}
            /\ Cardinality(returned) = Len(last.result)
            /\ \A i, j \in 1..Len(last.result) :
                 i < j => last.result[i].next_due_mileage <= last.result[j].next_due_mileage

\* an overdue interval is returned while another interval of the vehicle,
\* due exactly at or after the current reading, is not
C8_Witness ==
  /\ last.op = "get_overdue" /\ Len(last.result) >= 1
  /\ \E r \in maintenance_intervals :
       /\ r.vin = last.vin /\ r.next_due_mileage # NULL
       /\ r.next_due_mileage >= CurrentMileage(vehicles, last.vin)

\* the statuses of a get_maintenance_schedule response follow the distance
\* d = next_due_mileage - current_mileage, and are 'unknown' exactly for the
\* intervals without next_due_mileage and, when unknown_distance holds, for all
ScheduleStatuses(unknown_distance) ==
  LET rows == {r \in maintenance_intervals : r.vin = last.vin}
  IN /\ {last.result[i].id : i \in 1..Len(last.result)} = {r.id : r \in rows}
     /\ Len(last.result) = Cardinality(rows)
     /\ \A i \in 1..Len(last.result) :
          LET e == last.result[i]
              r == CHOOSE x \in rows : x.id = e.id
              unknown == r.next_due_mileage = NULL \/ unknown_distance
              d == r.next_due_mileage - CurrentMileage(vehicles, last.vin)
          IN /\ e.status \in {"overdue", "due_soon", "ok", "unknown"}
             /\ e.status = "unknown" <=> unknown
             /\ ~unknown =>
                  /\ e.status = "overdue" <=> d < 0
                  /\ e.status = "due_soon" <=> (0 <= d /\ d < 500)
                  /\ e.status = "ok" <=> d >= 500
             /\ e.status # "unknown" => e.miles_until_due = <<d>>

\* C9 as stated: in get_maintenance_schedule every interval gets exactly one
\* status: 'overdue' iff d < 0, 'due_soon' iff 0 <= d < 500, 'ok' iff
\* d >= 500, and 'unknown' iff next_due_mileage is absent or the vehicle's
\* distance is unknown (no vehicle row, or no reading); miles_until_due = d
\* whenever the status is not 'unknown'.
C9_StatusByDistance ==
  last.op = "get_maintenance_schedule" =>
    ScheduleStatuses(\/ VehicleRows(vehicles, last.vin) = {}
                     \/ CurrentMileage(vehicles, last.vin) = NULL)

\* C9 amended: as stated, but the status is 'unknown' also when the
\* vehicle's current_mileage is 0: 'unknown' iff next_due_mileage is absent,
\* the vehicle is absent, or its current_mileage is null or 0.
C9_StatusByDistanceUnlessZero ==
  last.op = "get_maintenance_schedule" =>
    ScheduleStatuses(\/ VehicleRows(vehicles, last.vin) = {}
                     \/ CurrentMileage(vehicles, last.vin) \in {NULL, 0})

\* a schedule with an interval due in exactly 500 miles
C9_Witness ==
  /\ last.op = "get_maintenance_schedule"
  /\ \E i \in 1..Len(last.result) :
       last.result[i].status = "ok" /\ last.result[i].miles_until_due = <<500>>

\* C10: every mutating operation is all-or-nothing: a call that raises
\* leaves the six tables exactly as they were before the call.
C10_AllOrNothing ==
  [][~last'.ok => store' = store]_vars

\* C11: when MileageService.create and VehicleService.update_mileage
\* requests for one vehicle interleave their store steps, the vehicle's
\* current_mileage ends at the maximum of its initial value and the accepted
\* readings: once every request has returned, it is at least the reading of
\* every request that found the vehicle and succeeded (no smaller reading has
\* overwritten a larger).
C11_FinalMileageIsMax ==
  (\A k \in 1..Len(requests) : requests[k].pc = "done") =>
    \A k \in 1..Len(requests) :
      (/\ requests[k].op \in {"mileage_create", "update_mileage"}
       /\ requests[k].err = ""
       /\ requests[k].seen # ABSENT)
        => OrZero(CurrentMileage(vehicles, requests[k].vin)) >= requests[k].m

\* C12: when MaintenanceService.create and initialize_for_vehicle requests
\* for one (vin, service_type) interleave their existence check and their
\* insert, at most one row for the pair exists afterwards, and no request
\* that did not insert reports a store failure (create reports that the
\* interval already exists).
C12_OneRowUnderRaces ==
  /\ \A r1, r2 \in maintenance_intervals :
       (r1.vin = r2.vin /\ r1.service_type = r2.service_type) => r1.id = r2.id
  /\ \A k \in 1..Len(requests) :
       (/\ requests[k].op \in {"maintenance_create", "initialize_for_vehicle"}
        /\ requests[k].pc = "done")
         => /\ requests[k].err # "STORE_ERROR"
            /\ (requests[k].op = "maintenance_create" /\ requests[k].err # "")
                 => requests[k].err \in {"VALIDATION_ERROR", "NOT_FOUND"}

\* the distance of C13: the span of the fuel odometers when positive, else
\* the span of the mileage-history readings, else 0
CostDistance ==
  LET odometers == {r.odometer : r \in {x \in fuel_logs : x.vin = last.vin}}
      readings == {r.mileage : r \in {x \in mileage_history : x.vin = last.vin}}
      Width(S) == IF S = {} THEN 0
                  ELSE (CHOOSE a \in S : \A b \in S : a >= b)
                       - (CHOOSE a \in S : \A b \in S : a <= b)
  IN IF Width(odometers) > 0 THEN Width(odometers) ELSE Width(readings)

\* the rate cents / distance in thousandths of a dollar, to the nearest one
IsRate(rate, cents, distance) ==
  IF distance > 0
  THEN 2 * (10 * cents - rate * distance) <= distance
       /\ 2 * (rate * distance - 10 * cents) <= distance
  ELSE rate = 0

\* repairs 100.00, fuel 50.00, fuel odometers 1000 and 1300
CostExample ==
  /\ last.op = "calculate_cost_per_mile"
  /\ last.result[1].repair_cost = 10000 /\ last.result[1].fuel_cost = 5000
  /\ {r.odometer : r \in {x \in fuel_logs : x.vin = last.vin}} = {1000, 1300}

\* C13: calculate_cost_per_mile returns total_cost = the sum of the vehicle's
\* repair costs + the sum of its fuel total costs, total_miles = max - min
\* fuel odometer, replaced by max - min mileage-history reading when the fuel
\* span is <= 0, and cost_per_mile = total_cost / total_miles (to 3
\* decimals) when total_miles > 0 and 0 otherwise, the fuel-only and
\* repair-only rates over the same distance; repairs 100, fuel 50 and
\* odometers 1000 and 1300 give 0.5.
C13_CostPerMile ==
  last.op = "calculate_cost_per_mile" =>
    LET res == last.result[1]
    IN /\ last.ok
       /\ res.repair_cost = SumColumn({r \in repairs : r.vin = last.vin}, "cost")
       /\ res.fuel_cost = SumColumn({r \in fuel_logs : r.vin = last.vin}, "total_cost")
       /\ res.total_cost = res.repair_cost + res.fuel_cost
       /\ res.total_miles = CostDistance
       /\ IsRate(res.cost_per_mile, res.total_cost, CostDistance)
       /\ IsRate(res.fuel_cost_per_mile, res.fuel_cost, CostDistance)
       /\ IsRate(res.repair_cost_per_mile, res.repair_cost, CostDistance)
       /\ CostExample => res.cost_per_mile = 500

\* the fuel span is not positive and the mileage history gives the distance
C13_Witness ==
  /\ last.op = "calculate_cost_per_mile"
  /\ Cardinality({r \in fuel_logs : r.vin = last.vin}) = 1
  /\ last.result[1].total_miles = 400
  /\ last.result[1].cost_per_mile > 0

\* the rows of a table that belong to the vehicle of the response and whose
\* day lies in the window of the response
SpendRows(tbl) ==
  {r \in tbl : r.vin = last.vin /\ r.date.ordinal >= WindowStart(last.arg).ordinal}

\* C14: get_monthly_spending returns, for every calendar month of the window
\* with at least one repair or fuel log of the vehicle, exactly one row with
\* repairs = the sum of the month's repair costs (0 if none), fuel = the sum
\* of the month's fuel total costs (0 if none) and total = repairs + fuel;
\* no row for a month without activity; rows in ascending month order.
C14_OneRowPerActiveMonth ==
  last.op = "get_monthly_spending" =>
    LET active == {r.date.calendar : r \in SpendRows(repairs) \cup SpendRows(fuel_logs)}
        InMonth(tbl, month) == {r \in SpendRows(tbl) : r.date.calendar = month}
    IN /\ last.ok
       /\ Len(last.result) = Cardinality(active)
       /\ {last.result[i].month : i \in 1..Len(last.result)} = active
       /\ \A i \in 1..Len(last.result) :
            /\ last.result[i].repairs =
                 SumColumn(InMonth(repairs, last.result[i].month), "cost")
            /\ last.result[i].fuel =
                 SumColumn(InMonth(fuel_logs, last.result[i].month), "total_cost")
            /\ last.result[i].total = last.result[i].repairs + last.result[i].fuel
       /\ \A i \in 1..(Len(last.result) - 1) :
            last.result[i].month < last.result[i + 1].month

\* the error codes a call can end with: ValidationError, NotFoundError, an
\* exception of sqlite3, a TypeError, an AttributeError, and the code an AlreadyExists error
\* would carry
ErrorCodes == {"VALIDATION_ERROR", "NOT_FOUND", "STORE_ERROR", "TYPE_ERROR",
               "ATTRIBUTE_ERROR", "ALREADY_EXISTS"}

\* the call raised NotFoundError and no table and no id counter changed
NotFoundUnchanged(op) ==
  /\ last' = Fail(op, "NOT_FOUND")
  /\ store' = store
  /\ next_id' = next_id

\* C15: a scheduler call that references something absent fails with
\* NotFound and leaves the store unchanged: record_service (with a well-formed
\* or omitted date) when no interval exists for (vin, service_type), and
\* MaintenanceService.create and initialize_for_vehicle when the vehicle does
\* not exist.
C15_AbsentReferenceIsNotFound ==
  [][/\ \A vin \in VINs, st \in ServiceTypes, d \in DateInputs \ {BAD},
          m \in {ABSENT, BAD, 5000} :
          (/\ ~ \E r \in maintenance_intervals : r.vin = vin /\ r.service_type = st
           /\ RecordService(vin, st, d, m))
            => NotFoundUnchanged("record_service")
     /\ \A vin \in VINs, st \in ServiceTypes, im \in SchedIntervalMiles,
          mo \in SchedIntervalMonths :
          (/\ ~ \E v \in vehicles : v.vin = vin
           /\ MaintCreate(vin, st, im, mo, ABSENT))
            => NotFoundUnchanged("maintenance_create")
     /\ \A vin \in VINs :
          (/\ ~ \E v \in vehicles : v.vin = vin
           /\ InitializeForVehicle(vin))
            => NotFoundUnchanged("initialize_for_vehicle")]_vars

\* record_service found no interval for its pair in a store that holds
\* intervals of other pairs
C15_Witness ==
  /\ last = Fail("record_service", "NOT_FOUND")
  /\ maintenance_intervals # {}

\* the call raised an error of the given code and no table and no id counter
\* changed
RaisedUnchanged(op, codes) ==
  /\ ~last'.ok /\ last'.op = op /\ last'.err \in codes
  /\ store' = store
  /\ next_id' = next_id

\* the duplicate creations: VehicleService.create of a VIN that has a
\* vehicle row and MaintenanceService.create of a pair that has an interval
\* row fail with an error code among codes and change nothing
DuplicatesRaise(codes) ==
  /\ \A vin \in VINs, cm \in {ABSENT, NULL, 4500} :
       (/\ \E v \in vehicles : v.vin = vin
        /\ VehicleCreate(vin, TRUE, cm))
         => RaisedUnchanged("vehicle_create", codes)
  /\ \A vin \in VINs, st \in ServiceTypes, im \in SchedIntervalMiles,
       mo \in SchedIntervalMonths :
       (/\ \E v \in vehicles : v.vin = vin
        /\ \E r \in maintenance_intervals : r.vin = vin /\ r.service_type = st
        /\ MaintenanceCreateCall(vin, st, im, mo))
         => RaisedUnchanged("maintenance_create", codes)

C17_DefaultsFillOnlyOmitted ==
  [][\A vin \in VINs, st \in ServiceTypes, im \in SchedIntervalMiles,
       mo \in SchedIntervalMonths :
       (MaintenanceCreateCall(vin, st, im, mo) /\ last'.ok) =>
         \A row \in maintenance_intervals' \ maintenance_intervals :
           /\ st \in DefaultTypes =>
                /\ row.interval_miles =
                     (IF im = ABSENT THEN DefaultOf(st).miles ELSE im)
                /\ row.interval_months =
                     (IF mo = ABSENT THEN DefaultOf(st).months ELSE mo)
           /\ row.interval_miles # NULL =>
                row.next_due_mileage =
                  OrZero(CurrentMileage(vehicles, vin)) + row.interval_miles]_vars

\* C18: after initialize_for_vehicle on an existing vehicle every service
\* type of the default table has an interval row for the vehicle; each row the
\* call created carries the default interval_miles and interval_months and
\* next_due_mileage = the vehicle's current_mileage (0 if null) + the default
\* interval_miles; and every row that existed before the call is unchanged.
C18_InitializeSeedsDefaults ==
  [][\A vin \in VINs :
       (/\ \E v \in vehicles : v.vin = vin
        /\ InitializeForVehicle(vin))
         => /\ \A st \in DefaultTypes :
                 \E r \in maintenance_intervals' :
                   r.vin = vin /\ r.service_type = st
            /\ maintenance_intervals \subseteq maintenance_intervals'
            /\ \A r \in maintenance_intervals' \ maintenance_intervals :
                 /\ r.vin = vin
                 /\ r.service_type \in DefaultTypes
                 /\ r.interval_miles = DefaultOf(r.service_type).miles
                 /\ r.interval_months = DefaultOf(r.service_type).months
                 /\ r.next_due_mileage =
                      OrZero(CurrentMileage(vehicles, vin))
                        + DefaultOf(r.service_type).miles]_vars

\* initialize_for_vehicle created rows for a vehicle whose reading is not 0,
\* next to a row of another service type that was there before
C18_Witness ==
  /\ last.op = "initialize_for_vehicle" /\ last.ok /\ last.id >= 1
  /\ CurrentMileage(vehicles, last.vin) \notin {0, NULL}
  /\ \E r \in maintenance_intervals :
       r.vin = last.vin /\ r.service_type \notin DefaultTypes

\* C19: get_upcoming(vin, limit) with limit >= 0 returns min(limit, k)
\* rows, k being the number of the vehicle's intervals with a non-null
\* next_due_mileage; the rows are in ascending next_due_mileage order and are
\* the ones with the smallest values, and none has a null next_due_mileage.
C19_UpcomingSmallestFirst ==
  last.op = "get_upcoming" =>
    LET due == {r \in maintenance_intervals :
                  r.vin = last.vin /\ r.next_due_mileage # NULL}
        k == Cardinality(due)
        returned == {last.result[i] : i \in 1..Len(last.result)}
    IN /\ Len(last.result) = (IF last.arg < k THEN last.arg ELSE k)
       /\ Cardinality(returned) = Len(last.result)
       /\ returned \subseteq due
       /\ \A i, j \in 1..Len(last.result) :
            i < j => last.result[i].next_due_mileage <= last.result[j].next_due_mileage
       /\ \A r \in returned, q \in due \ returned :
            r.next_due_mileage <= q.next_due_mileage

\* with limit 1 the interval due first is returned and one due later is not
C19_Witness ==
  /\ last.op = "get_upcoming" /\ last.arg = 1 /\ Len(last.result) = 1
  /\ \E q \in maintenance_intervals :
       /\ q.vin = last.vin /\ q.next_due_mileage # NULL
       /\ q.next_due_mileage > last.result[1].next_due_mileage

\* an interval without next_due_mileage is left out of a result that the
\* limit would have had room for
C19_NullLeftOut ==
  /\ last.op = "get_upcoming" /\ last.arg = 2 /\ Len(last.result) = 1
  /\ \E q \in maintenance_intervals : q.vin = last.vin /\ q.next_due_mileage = NULL

\* C20: after a successful MileageService.create with reading m for an
\* existing vehicle whose current_mileage was c (null counted as 0), the
\* vehicle's current_mileage is max(c, m) and exactly one mileage_history row,
\* with reading m, has been added: a reading below c is recorded but does not
\* lower the vehicle's reading.
C20_ReadingRaisesNeverLowers ==
  [][\A vin \in VINs, m \in StoreMileages, bindable \in BOOLEAN :
       (/\ \E v \in vehicles : v.vin = vin
        /\ MileageCreate(vin, m, bindable)
        /\ last'.ok)
         => LET c == OrZero(CHOOSE x \in {v.current_mileage : v \in {w \in vehicles : w.vin = vin}} : TRUE)
                after == {v.current_mileage : v \in {w \in vehicles' : w.vin = vin}}
            IN /\ {OrZero(x) : x \in after} = {IF c > m THEN c ELSE m}
               /\ \E row \in mileage_history' :
                    /\ row \notin mileage_history
                    /\ mileage_history' = mileage_history \cup {row}
                    /\ row.vin = vin
                    /\ row.mileage = m]_vars

\* a reading below the vehicle's was recorded in the history
C20_Witness ==
  /\ last.op = "mileage_create" /\ last.ok
  /\ \E v \in vehicles : v.vin = last.vin /\ v.current_mileage > last.arg
  /\ \E row \in mileage_history : row.vin = last.vin /\ row.mileage = last.arg

\* C21: for every entity kind and every well-formed update payload, update
\* on a key that is not in the store fails with NotFound and changes nothing;
\* this includes FuelLogService.update with gallons in the payload and
\* TripService.update with start_mileage or end_mileage in the payload.
C21_UpdateOfAbsentIsNotFound ==
  [][/\ \A vin \in VINs, cm \in {ABSENT, 200} :
          (/\ ~ \E v \in vehicles : v.vin = vin
           /\ VehicleUpdate(vin, cm))
            => NotFoundUnchanged("vehicle_update")
     /\ \A id \in RecordIds, st \in ServiceTypes :
          (/\ ~ \E r \in maintenance_intervals : r.id = id
           /\ MaintUpdate(id, "service_type", st))
            => NotFoundUnchanged("maintenance_update")
     /\ \A id \in RecordIds, cost \in RecordCosts \ {BAD} :
          (/\ ~ \E r \in repairs : r.id = id
           /\ RepairUpdate(id, cost))
            => NotFoundUnchanged("repair_update")
     /\ \A id \in RecordIds, gallons \in RecordGallons \ {BAD},
          odometer \in RecordOdometers :
          (/\ ~ \E r \in fuel_logs : r.id = id
           /\ FuelLogUpdate(id, gallons, odometer))
            => NotFoundUnchanged("fuel_update")
     /\ \A id \in RecordIds, start_mileage \in TripStarts, end_mileage \in TripEnds :
          (/\ ~ \E r \in trips : r.id = id
           /\ TripUpdate(id, start_mileage, end_mileage))
            => NotFoundUnchanged("trip_update")]_vars

\* C25: in every state reachable through TripService.create and
\* TripService.update, every trip whose start_mileage and end_mileage are
\* both non-null (a start of 0 included) has distance = end_mileage -
\* start_mileage, and that distance is not negative.
C25_DistanceIsEndMinusStart ==
  \A t \in trips :
    (t.start_mileage # NULL /\ t.end_mileage # NULL) =>
      /\ t.distance = t.end_mileage - t.start_mileage
      /\ t.distance >= 0

\* C22: validate_vin succeeds exactly when the input, trimmed of surrounding
\* white space and uppercased, has length 17 and contains none of I, O, Q; on
\* success it returns that trimmed, uppercased text and otherwise (empty input
\* included) it fails with InvalidInput; validate_vin of its own result
\* returns the same text.
C22_VinNormalForm ==
  last.op = "validate_vin" =>
    LET normal == Upper(Strip(last.arg))
        wellformed == /\ Len(normal) = 17
                      /\ \A i \in 1..Len(normal) : normal[i] \notin {"I", "O", "Q"}
    IN /\ last.ok <=> wellformed
       /\ last.ok => /\ last.result = <<normal>>
                     /\ ValidateVin(normal) = [ok |-> TRUE, value |-> normal]
       /\ ~last.ok => last.err = "VALIDATION_ERROR" /\ last.result = <<>>

\* a padded lower-case input was accepted and returned trimmed and uppercased
C22_Witness ==
  /\ last.op = "validate_vin" /\ last.ok
  /\ Len(last.arg) > 17
  /\ last.result[1] # last.arg
  /\ \E i \in 1..Len(last.arg) : last.arg[i] = "sz"

\* an input of 17 characters was rejected for a forbidden letter
C22_Rejected ==
  /\ last.op = "validate_vin" /\ ~last.ok
  /\ Len(last.arg) = 17
  /\ \E i \in 1..17 : last.arg[i] = "q"

\* C23: for every reachable store state and every existing vehicle the
\* overdue_maintenance list of get_vehicle_dashboard names exactly the
\* intervals that get_overdue returns for the vehicle; in particular it is
\* empty when the vehicle's current_mileage is 0 or null.
C23_DashboardOverdueIsGetOverdue ==
  (last.op = "get_vehicle_dashboard" /\ last.ok) =>
    LET overdue == OverdueSet(vehicles, maintenance_intervals, last.vin)
    IN /\ Len(last.result) = Cardinality(overdue)
       /\ \A r \in overdue :
            Cardinality({i \in 1..Len(last.result) : last.result[i] = DashboardColumns(r)})
              = Cardinality({q \in overdue : DashboardColumns(q) = DashboardColumns(r)})
       /\ ~Truthy(CurrentMileage(vehicles, last.vin)) => last.result = <<>>

\* C27: for every reachable store state and every vehicle, an interval has
\* status 'overdue' in get_maintenance_schedule if and only if it is in the
\* result of get_overdue for the same vehicle.
C27_ScheduleOverdueIsGetOverdue ==
  last.op = "get_maintenance_schedule" =>
    {last.result[i].id : i \in {j \in 1..Len(last.result) :
                                  last.result[j].status = "overdue"}}
      = {r.id : r \in OverdueSet(vehicles, maintenance_intervals, last.vin)}

\* a schedule with an overdue interval next to one that is due later
C27_Witness ==
  /\ last.op = "get_maintenance_schedule"
  /\ \E i, j \in 1..Len(last.result) :
       /\ last.result[i].status = "overdue"
       /\ last.result[j].status \in {"due_soon", "ok"}

\* a schedule of a vehicle without a reading, one of whose intervals has a
\* next_due_mileage below 0
C27_NoReading ==
  /\ last.op = "get_maintenance_schedule"
  /\ VehicleRows(vehicles, last.vin) # {}
  /\ ~Truthy(CurrentMileage(vehicles, last.vin))
  /\ \E i \in 1..Len(last.result) : last.result[i].next_due_mileage < NULL

\* C24: whenever VehicleService.create returns successfully, the new vehicle
\* has exactly one maintenance interval for every service type of the default
\* table, each with next_due_mileage = the vehicle's initial current_mileage
\* (0 if omitted) + the default interval_miles.
C24_CreatedVehicleIsSeeded ==
  [][\A vin \in VINs, cm \in {ABSENT, NULL, 100} :
       (VehicleCreate(vin, TRUE, cm) /\ last'.ok) =>
         \A st \in DefaultTypes :
           LET rows == {r \in maintenance_intervals' :
                          r.vin = vin /\ r.service_type = st}
           IN /\ Cardinality(rows) = 1
              /\ \A r \in rows :
                   r.next_due_mileage = OrZero(cm) + DefaultOf(st).miles]_vars

ScopeLeftClean(r) ==
  /\ r.conn # "open"
  /\ r.pending = {}
  /\ r.outcome = "committed" => (~r.raised /\ r.before \subseteq repairs)
  /\ r.outcome # "committed" => repairs = r.before
  /\ r.raised => (r.outcome # "committed" /\ (r.conn = "closed" => r.outcome = "rolled_back"))
  /\ (r.raised /\ r.conn = "none") => r.outcome = "none"

\* every scope that is entered is left
ScopeIsLeft ==
  \A kind \in ScopeKinds :
    (requests # <<>> /\ requests[1].kind = kind /\ requests[1].pc # "exited")
      ~> (requests # <<>> /\ requests[1].kind = kind /\ requests[1].pc = "exited")

\* C26 as stated: every use of connection() and transaction() ends with the
\* connection closed on every exit path; the work done inside is committed
\* exactly when the body finishes without an exception, and rolled back, the
\* exception re-raised, when the body raises.
C26_CommittedIffBodyFinishes ==
  /\ [](\A k \in 1..Len(requests) :
          requests[k].pc = "exited" =>
            /\ ScopeLeftClean(requests[k])
            /\ requests[k].outcome = "committed" <=> requests[k].finished)
  /\ ScopeIsLeft

\* C26 amended: every use of connection() and transaction() ends with the
\* connection closed on every exit path; the work done inside is committed
\* exactly when the body finishes without an exception and commit() itself
\* does not raise; when the body, BEGIN or commit() raises, the work is rolled
\* back and the exception re-raised, so a failed body never commits.
C26_CommittedIffNothingRaised ==
  /\ [](\A k \in 1..Len(requests) :
          requests[k].pc = "exited" =>
            /\ ScopeLeftClean(requests[k])
            /\ requests[k].outcome = "committed" =>
                 (requests[k].finished /\ ~requests[k].raised)
            /\ (requests[k].finished /\ ~requests[k].raised) =>
                 requests[k].outcome = "committed"
            /\ ~requests[k].finished => requests[k].raised)
  /\ ScopeIsLeft

\* a transaction() whose body wrote rows and raised has been left: rolled
\* back and closed, next to rows an earlier scope committed
C26_Witness ==
  /\ requests # <<>>
  /\ requests[1].kind = "transaction" /\ requests[1].pc = "exited"
  /\ requests[1].raised /\ ~requests[1].finished
  /\ requests[1].outcome = "rolled_back" /\ requests[1].conn = "closed"
  /\ repairs # {}

\* the reading get_maintenance_schedule compares an interval of vin with
ScheduleReading(vs, vin) ==
  IF VehicleRows(vs, vin) # {} THEN CurrentMileage(vs, vin) ELSE 0

\* the interval is reported overdue by get_overdue or by the schedule
ReportedOverdue(vs, tbl, r) ==
  \/ r \in OverdueSet(vs, tbl, r.vin)
  \/ ScheduleEntry(r, ScheduleReading(vs, r.vin)).status = "overdue"

\* C29: immediately after a successful record_service with the mileage
\* omitted, on an interval whose interval_miles is set and positive, that
\* interval is not in get_overdue for the vehicle and its schedule status is
\* not 'overdue'; it stays so until the vehicle's current_mileage exceeds the
\* new next_due_mileage: an interval is reported overdue only while its
\* vehicle's current_mileage exceeds its next_due_mileage.
C29_RecordedIsNotOverdue ==
  /\ [][\A vin \in VINs, st \in ServiceTypes, d \in DateInputs :
          (RecordService(vin, st, d, ABSENT) /\ last'.ok) =>
            \A r \in maintenance_intervals' :
              (r.id = last'.id /\ r.interval_miles > 0) =>
                /\ r.next_due_mileage # NULL
                /\ r.next_due_mileage >= ScheduleReading(vehicles', vin)
                /\ ~ReportedOverdue(vehicles', maintenance_intervals', r)]_vars
  /\ [](\A r \in maintenance_intervals :
          ReportedOverdue(vehicles, maintenance_intervals, r) =>
            /\ VehicleRows(vehicles, r.vin) # {}
            /\ r.next_due_mileage # NULL
            /\ CurrentMileage(vehicles, r.vin) > r.next_due_mileage)

\* a service recorded without a mileage on a vehicle with a reading: the
\* interval is due interval_miles past the reading, and both views were
\* asked about it since
C29_Witness ==
  /\ last.op \in {"get_overdue", "get_maintenance_schedule"}
  /\ VehicleRows(vehicles, last.vin) # {}
  /\ CurrentMileage(vehicles, last.vin) > 0
  /\ \E r \in maintenance_intervals :
       /\ r.vin = last.vin /\ r.interval_miles > 0
       /\ r.last_performed_mileage = CurrentMileage(vehicles, last.vin)
       /\ r.next_due_mileage = CurrentMileage(vehicles, last.vin) + r.interval_miles
       /\ ~ReportedOverdue(vehicles, maintenance_intervals, r)

\* C30: record_service on an interval whose interval_miles is unset (null or
\* 0) stores a null next_due_mileage, discarding any next-due distance the
\* interval had before, and likewise stores a null next_due_date when
\* interval_months is unset; it changes only that one interval row and leaves
\* the vehicle row (including current_mileage) and all other intervals
\* unchanged.
C30_UnsetIntervalClearsNextDue ==
  [][\A vin \in VINs, st \in ServiceTypes, d \in DateInputs, m \in {ABSENT, BAD, 5000} :
       (RecordService(vin, st, d, m) /\ last'.ok) =>
         \E old \in maintenance_intervals, new \in maintenance_intervals' :
           /\ old.id = last'.id /\ new.id = old.id
           /\ old.vin = vin /\ old.service_type = st
           /\ ~Truthy(old.interval_miles) => new.next_due_mileage = NULL
           /\ ~Truthy(old.interval_months) => new.next_due_date = NULL
           /\ new = [old EXCEPT !.last_performed_date = new.last_performed_date,
                                !.last_performed_mileage = new.last_performed_mileage,
                                !.next_due_date = new.next_due_date,
                                !.next_due_mileage = new.next_due_mileage]
           /\ maintenance_intervals' \ {new} = maintenance_intervals \ {old}
           /\ vehicles' = vehicles]_vars

\* a service recorded on an interval of a registered vehicle whose
\* interval_miles was set to 0 after the interval got its next-due distance:
\* the distance is gone, while the date, the interval having interval_months,
\* is computed
C30_Witness ==
  /\ last.op = "record_service" /\ last.ok
  /\ VehicleRows(vehicles, last.vin) # {}
  /\ RecordedRow.interval_miles = 0
  /\ RecordedRow.next_due_mileage = NULL
  /\ RecordedRow.last_performed_date # NULL
  /\ Truthy(RecordedRow.interval_months) /\ RecordedRow.next_due_date # NULL

====
